---- MODULE Spec2Model ----
(***************************************************************************)
(* TDC Net demo: the manager dashboard (fault enrichment and triage) and   *)
(* the field engineer assistant (procedure matcher, step extractor).       *)
(*                                                                         *)
(* Conventions of the model                                                *)
(*   - Timestamps are whole hours since an arbitrary epoch; a calendar     *)
(*     date is the timestamp \div 24.  hours_since_fault is therefore an   *)
(*     integer number of hours.                                            *)
(*   - Priority scores are hundredths (0.8 is 80), match scores are tenths *)
(*     (0.8 is 8).  The float sums 0.8+0.6+0.4 the code forms are ordered  *)
(*     like the integer sums, so every comparison is preserved.            *)
(*   - A Python str is a sequence of one-character strings.                *)
(*   - An optional value is a sequence: NULL (None / NaN / NaT) is <<>>,   *)
(*     a present value v is <<v>>.                                         *)
(***************************************************************************)
EXTENDS Integers, Sequences, FiniteSets, TLC

VARIABLES
    app,            \* which Streamlit script this process serves
    now,            \* the wall clock (pd.Timestamp.now(), datetime.now())
    store_up,       \* whether the Snowflake session / fault view is reachable
    store,          \* rows of VW_NETWORK_FAULTS_ENHANCED
    triage,         \* VW_FAULT_TRIAGE: [up |-> BOOLEAN, rows |-> Seq]
    sop_table,      \* SOP_DOCUMENT_METADATA: [up |-> BOOLEAN, rows |-> Seq]
    cache,          \* st.cache_data entry of load_fault_data: <<>>, or the
                    \* returned value and the columns of the returned frame
    view,           \* what the last script run rendered
    selected_fault, \* st.session_state.selected_fault: NULL or <<row>>
    chat_history,   \* st.session_state.chat_history
    \* one call of generate_repair_procedure, statement by statement
    pc,                 \* "idle", "match", "extract" or "done"
    fault_code, equipment_type, fault_description, sop_docs,    \* the arguments
    doc_index,          \* position of `for doc in sop_docs`
    score, best_match, best_score,
    lines, line_index,  \* content.split('\n') and the position of `for line in lines`
    current_section,
    safety_steps, diagnostic_steps, repair_steps, verification_steps,
    procedure,          \* the returned dict: <<>> until the call returns
    \* one call of extract_relevant_excerpt or of search_sop_documents_cortex
    content, query, max_length,     \* the arguments (query: of either function)
    excerpt,            \* the returned str: <<>> or <<value>>
    results             \* the returned list: <<>> or <<value>>

tables == <<store, triage, sop_table>>
session == <<selected_fault, chat_history>>
appVars == <<app, now, store_up, store, triage, sop_table, cache, view, session>>
callArgs == <<fault_code, equipment_type, fault_description, sop_docs>>
matchVars == <<doc_index, score, best_match, best_score>>
extractVars == <<lines, line_index, current_section,
                 safety_steps, diagnostic_steps, repair_steps, verification_steps>>
procVars == <<pc, callArgs, matchVars, extractVars, procedure>>
textVars == <<content, query, max_length, excerpt, results>>
vars == <<appVars, procVars, textVars>>

NULL == <<>>

(***************************************************************************)
(* Bounds of the model                                                     *)
(***************************************************************************)
MaxTicks == 1       \* hours the clock may advance during a session
MaxRecords == 2     \* rows of the fault view in an interactive session
MaxDocs == 2        \* candidate documents of one call
MaxLines == 3       \* lines of a document's content
MaxAsks == 1        \* questions answered in one chat session
MaxChatAsks == 6    \* questions answered in a long conversation

(***************************************************************************)
(* Generic sequence helpers                                                *)
(***************************************************************************)
RECURSIVE Flatten(_)
Flatten(ss) == IF ss = <<>> THEN <<>> ELSE Head(ss) \o Flatten(Tail(ss))

Filter(s, Test(_)) == SelectSeq(s, Test)

Count(s, Test(_)) == Len(SelectSeq(s, Test))

Range(s) == {s[i] : i \in DOMAIN s}

(***************************************************************************)
(* Python str operations on sequences of characters                        *)
(***************************************************************************)
LowerLetters == <<"a", "b", "c", "d", "e", "f", "g", "h", "i", "j", "k", "l", "m",
                  "n", "o", "p", "q", "r", "s", "t", "u", "v", "w", "x", "y", "z">>
UpperLetters == <<"A", "B", "C", "D", "E", "F", "G", "H", "I", "J", "K", "L", "M",
                  "N", "O", "P", "Q", "R", "S", "T", "U", "V", "W", "X", "Y", "Z">>

IndexIn(letters, c) == CHOOSE i \in DOMAIN letters : letters[i] = c

\* str.upper() and str.lower(), character by character
upper(str) ==
    [i \in DOMAIN str |->
        IF str[i] \in Range(LowerLetters)
        THEN UpperLetters[IndexIn(LowerLetters, str[i])] ELSE str[i]]

lower(str) ==
    [i \in DOMAIN str |->
        IF str[i] \in Range(UpperLetters)
        THEN LowerLetters[IndexIn(UpperLetters, str[i])] ELSE str[i]]

\* needle in haystack
contains(haystack, needle) ==
    \E k \in 0 .. (Len(haystack) - Len(needle)) :
        SubSeq(haystack, k + 1, k + Len(needle)) = needle

\* str.startswith(prefix)
startswith(str, prefix) ==
    /\ Len(prefix) <= Len(str)
    /\ SubSeq(str, 1, Len(prefix)) = prefix

IsSpace(c) == c \in {" ", "\t", "\n", "\r"}

\* str.strip(): without its leading and trailing whitespace
strip(str) ==
    LET solid == {i \in DOMAIN str : ~IsSpace(str[i])}
    IN  IF solid = {} THEN <<>>
        ELSE SubSeq(str, CHOOSE i \in solid : \A j \in solid : i <= j,
                         CHOOSE i \in solid : \A j \in solid : i >= j)

RECURSIVE split(_, _)
\* str.split(sep) for a one-character separator: never an empty list
split(str, sep) ==
    IF \A i \in DOMAIN str : str[i] # sep THEN <<str>>
    ELSE LET cut == CHOOSE i \in DOMAIN str :
                        str[i] = sep /\ \A j \in 1 .. (i - 1) : str[j] # sep
         IN  <<SubSeq(str, 1, cut - 1)>> \o split(SubSeq(str, cut + 1, Len(str)), sep)

RECURSIVE join(_, _)
\* sep.join(parts)
join(parts, sep) ==
    IF parts = <<>> THEN <<>>
    ELSE IF Len(parts) = 1 THEN parts[1]
    ELSE parts[1] \o <<sep>> \o join(Tail(parts), sep)

(***************************************************************************)
(* manager_dashboard/app.py : load_fault_data                              *)
(***************************************************************************)

\* lambda x: 'CRITICAL' if x > 0.8 else 'HIGH' if x > 0.6 else 'MEDIUM' if x > 0.4 else 'LOW'
risk_level_inclusive(x) ==
    IF x >= 80 THEN "CRITICAL"
    ELSE IF x >= 60 THEN "HIGH"
    ELSE IF x >= 40 THEN "MEDIUM"
    ELSE "LOW"

risk_level(x) ==
    IF x > 80 THEN "CRITICAL"
    ELSE IF x > 60 THEN "HIGH"
    ELSE IF x > 40 THEN "MEDIUM"
    ELSE "LOW"

\* the three-way disjunction of the SLA breach column
sla_breach_risk_inclusive(fault_category, hours_since_fault) ==
    \/ (fault_category = "Cable Fault" /\ hours_since_fault >= 4)
    \/ (fault_category = "Major" /\ hours_since_fault > 2)
    \/ (fault_category = "Minor" /\ hours_since_fault > 1)

sla_breach_risk(fault_category, hours_since_fault) ==
    \/ (fault_category = "Cable Fault" /\ hours_since_fault > 4)
    \/ (fault_category = "Major" /\ hours_since_fault > 2)
    \/ (fault_category = "Minor" /\ hours_since_fault > 1)

\* Series.fillna(other): the value, or the fallback where it is missing
fillna(value, other) == IF value = NULL THEN other ELSE value[1]

\* a variant that merges with how='inner': a row without a match is dropped
merge_inner(df, triage_df) ==
    Flatten([i \in DOMAIN df |->
        LET row == df[i]
            IsMatch(t) == t.FAULT_ID = row.fault_id
            matches == SelectSeq(triage_df, IsMatch)
        IN  [j \in DOMAIN matches |->
                [row EXCEPT !.PREDICTED_CATEGORY = matches[j].PREDICTED_CATEGORY,
                            !.CALCULATED_PRIORITY_SCORE =
                                matches[j].CALCULATED_PRIORITY_SCORE]]])

\* df.merge(triage_df[[...]], left_on='fault_id', right_on='FAULT_ID', how='left'):
\* every left row once per matching right row, in left order; a left row
\* without a match is kept once with the right columns missing.
merge_left(df, triage_df) ==
    Flatten([i \in DOMAIN df |->
        LET row == df[i]
            IsMatch(t) == t.FAULT_ID = row.fault_id
            matches == SelectSeq(triage_df, IsMatch)
        IN  IF matches = <<>>
            THEN << [row EXCEPT !.PREDICTED_CATEGORY = NULL,
                                !.CALCULATED_PRIORITY_SCORE = NULL] >>
            ELSE [j \in DOMAIN matches |->
                    [row EXCEPT !.PREDICTED_CATEGORY = matches[j].PREDICTED_CATEGORY,
                                !.CALCULATED_PRIORITY_SCORE =
                                    matches[j].CALCULATED_PRIORITY_SCORE]]])

\* the columns the loader adds to a row of the fault view
EmptyDerived ==
    [hours_since_fault |-> 0, is_resolved |-> FALSE,
     PREDICTED_CATEGORY |-> NULL, CALCULATED_PRIORITY_SCORE |-> NULL,
     predicted_category |-> "", calculated_priority_score |-> 0,
     risk_level |-> "LOW", sla_breach_risk |-> FALSE]

WithColumns(row, extra) ==
    [f \in (DOMAIN row) \cup (DOMAIN extra) |->
        IF f \in DOMAIN extra THEN extra[f] ELSE row[f]]

\* the body of load_fault_data, run at wall-clock time t
load_fault_data(up, rows, tri, t) ==
    IF ~up
    THEN <<>>                      \* except Exception: the empty DataFrame
    ELSE
        LET timed == [i \in DOMAIN rows |->
                        WithColumns(rows[i],
                            [EmptyDerived EXCEPT
                                !.hours_since_fault = t - rows[i].fault_timestamp,
                                !.is_resolved = (rows[i].resolution_timestamp # NULL)])]
            merged == IF tri.up
                      THEN LET m == merge_left(timed, tri.rows)
                           IN [i \in DOMAIN m |->
                                [m[i] EXCEPT
                                  !.predicted_category =
                                      fillna(m[i].PREDICTED_CATEGORY, m[i].fault_category),
                                  !.calculated_priority_score =
                                      fillna(m[i].CALCULATED_PRIORITY_SCORE,
                                             m[i].priority_score)]]
                      ELSE [i \in DOMAIN timed |->
                                [timed[i] EXCEPT
                                  !.predicted_category = timed[i].fault_category,
                                  !.calculated_priority_score = timed[i].priority_score]]
        IN  [i \in DOMAIN merged |->
                [merged[i] EXCEPT
                    !.risk_level = risk_level(merged[i].calculated_priority_score),
                    !.sla_breach_risk =
                        sla_breach_risk(merged[i].fault_category,
                                        merged[i].hours_since_fault)]]

\* the columns of the frame in the except branch
EmptyFrameColumns ==
    {"fault_id", "fault_timestamp", "fault_category", "fault_code",
     "equipment_type", "location", "customers_affected", "service_calls",
     "technician_type_required", "resolution_timestamp", "priority_score",
     "is_resolved", "hours_since_fault", "created_date", "resolution_date",
     "business_hours_fault", "predicted_category", "calculated_priority_score",
     "risk_level", "sla_breach_risk"}

\* df.columns of the frame load_fault_data returns
loaded_columns(up, rows) ==
    IF ~up THEN EmptyFrameColumns
    ELSE IF rows = <<>> THEN {}
    ELSE (DOMAIN rows[1]) \cup (DOMAIN EmptyDerived)

\* the entry of the memo after a call that returned `value`
cache_entry(c, value, cols) == IF c = <<>> THEN <<value, cols>> ELSE c

\* a variant that calls the loader again while the entry is an empty frame
cached_value_retry(c, up, rows, tri, t) ==
    IF c = <<>> \/ c[1] = <<>> THEN load_fault_data(up, rows, tri, t) ELSE c[1]

\* @st.cache_data on a function without arguments: one entry, filled by the
\* first call and returned by every later one.
cached_value(c, up, rows, tri, t) ==
    IF c = <<>> THEN load_fault_data(up, rows, tri, t) ELSE c[1]

(***************************************************************************)
(* manager_dashboard/app.py : main and the panels it calls                 *)
(***************************************************************************)

date(ts) == ts \div 24

\* The sidebar widgets.  date_input with a tuple value returns 0, 1 or 2
\* dates, none later than max_value (today); the select boxes offer 'All'
\* and the values present in the loaded frame.
FilterChoices(df, t) ==
    [date_range : {<<date(t) - 7, date(t)>>, <<date(t)>>, <<date(t), date(t)>>,
                   <<date(t) - 1, date(t) - 1>>},
     location : {"All"} \cup {df[i].location : i \in DOMAIN df},
     category : {"All"} \cup {df[i].fault_category : i \in DOMAIN df},
     risk : {"All", "CRITICAL", "HIGH", "MEDIUM", "LOW"}]

\* the widgets' values before the user touches them
DefaultFilters(t) ==
    [date_range |-> <<date(t) - 7, date(t)>>, location |-> "All",
     category |-> "All", risk |-> "All"]

\* a variant whose date range excludes its last day
apply_filters_before_end(df, f) ==
    LET InRange(r) == /\ date(r.fault_timestamp) >= f.date_range[1]
                      /\ date(r.fault_timestamp) < f.date_range[2]
        AtLocation(r) == r.location = f.location
        OfCategory(r) == r.fault_category = f.category
        OfRisk(r) == r.risk_level = f.risk
        d1 == IF Len(f.date_range) = 2 THEN SelectSeq(df, InRange) ELSE df
        d2 == IF f.location # "All" THEN SelectSeq(d1, AtLocation) ELSE d1
        d3 == IF f.category # "All" THEN SelectSeq(d2, OfCategory) ELSE d2
    IN  IF f.risk # "All" THEN SelectSeq(d3, OfRisk) ELSE d3

\* "Apply filters": the four successive row selections of main
apply_filters(df, f) ==
    LET InRange(r) == /\ date(r.fault_timestamp) >= f.date_range[1]
                      /\ date(r.fault_timestamp) <= f.date_range[2]
        AtLocation(r) == r.location = f.location
        OfCategory(r) == r.fault_category = f.category
        OfRisk(r) == r.risk_level = f.risk
        d1 == IF Len(f.date_range) = 2 THEN SelectSeq(df, InRange) ELSE df
        d2 == IF f.location # "All" THEN SelectSeq(d1, AtLocation) ELSE d1
        d3 == IF f.category # "All" THEN SelectSeq(d2, OfCategory) ELSE d2
    IN  IF f.risk # "All" THEN SelectSeq(d3, OfRisk) ELSE d3

\* create_kpi_metrics: the counts of the first two metric columns
create_kpi_metrics(df) ==
    LET Active(r) == ~r.is_resolved
        Recent(r) == r.hours_since_fault < 24
        Critical(r) == (~r.is_resolved) /\ r.risk_level = "CRITICAL"
        AtRisk(r) == r.sla_breach_risk
    IN  [total_active |-> Count(df, Active),
         last_24h |-> Count(df, Recent),
         critical_faults |-> Count(df, Critical),
         sla_risk |-> Count(df, AtRisk)]

RECURSIVE sort_values_descending(_, _)
\* df.sort_values('calculated_priority_score', ascending=False) on the rows
\* at the positions `left`: every order the sort may return, rows of equal
\* score in any order (the default sort kind is not stable)
sort_values_descending(df, left) ==
    IF left = {} THEN {<<>>}
    ELSE LET top == {i \in left : \A j \in left :
                        df[j].calculated_priority_score <= df[i].calculated_priority_score}
         IN  UNION {{<<df[i]>> \o rest : rest \in sort_values_descending(df, left \ {i})} :
                        i \in top}

\* a variant that lists resolved faults too
display_critical_alerts_resolved_too(df) ==
    LET critical_faults ==
            sort_values_descending(df,
                {i \in DOMAIN df :
                    df[i].risk_level = "CRITICAL" \/ df[i].sla_breach_risk})
    IN  {[k \in 1 .. (IF Len(sorted) < 5 THEN Len(sorted) ELSE 5) |->
            [fault |-> sorted[k],
             alert_type |-> IF sorted[k].risk_level = "CRITICAL"
                            THEN "critical-alert" ELSE "high-priority"]] :
         sorted \in critical_faults}

\* display_critical_alerts: the alert boxes, top to bottom; one list for
\* each order the sort may return
display_critical_alerts(df) ==
    LET critical_faults ==
            sort_values_descending(df,
                {i \in DOMAIN df :
                    /\ ~df[i].is_resolved
                    /\ (df[i].risk_level = "CRITICAL" \/ df[i].sla_breach_risk)})
    IN  {[k \in 1 .. (IF Len(sorted) < 5 THEN Len(sorted) ELSE 5) |->
            [fault |-> sorted[k],
             alert_type |-> IF sorted[k].risk_level = "CRITICAL"
                            THEN "critical-alert" ELSE "high-priority"]] :
         sorted \in critical_faults}

NoView == [kind |-> "none", rendered_at |-> 0, rows |-> <<>>,
           kpi |-> create_kpi_metrics(<<>>), alerts |-> <<>>,
           filters |-> [date_range |-> <<>>, location |-> "All",
                        category |-> "All", risk |-> "All"]]

\* One run of the manager script: load (memoized), stop on an empty frame,
\* otherwise filter and render.
ManagerRender(f) ==
    /\ app = "manager"
    /\ LET df == cached_value(cache, store_up, store, triage, now)
       IN  /\ f \in FilterChoices(df, now)
           /\ cache' = cache_entry(cache, df, loaded_columns(store_up, store))
           /\ IF df = <<>>
              THEN view' = [NoView EXCEPT !.kind = "error", !.rendered_at = now]
              ELSE LET filtered_df == apply_filters(df, f)
                   IN  \E alerts \in display_critical_alerts(filtered_df) :
                         view' = [kind |-> "dashboard", rendered_at |-> now,
                                  rows |-> filtered_df,
                                  kpi |-> create_kpi_metrics(filtered_df),
                                  alerts |-> alerts,
                                  filters |-> f]
    /\ UNCHANGED <<app, now, store_up, tables, session, procVars, textVars>>

(***************************************************************************)
(* field_engineer_app/app.py : generate_repair_procedure                   *)
(*                                                                         *)
(* A document is a record [document_id, title, category, equipment_types,  *)
(* fault_codes, content, description]; title, content and description are  *)
(* optional (a key that is missing from the dict is NULL).                 *)
(***************************************************************************)

\* dict.get(key, default)
get(field, default) == IF field = NULL THEN default ELSE field[1]

\* Python's `a or b` on strings: a unless it is empty
or_else(a, b) == IF a # <<>> THEN a ELSE b

\* fault_code in doc.get('fault_codes', [])
fault_code_match(code, doc) ==
    \E i \in DOMAIN doc.fault_codes : doc.fault_codes[i] = code

\* the loop over equipment_types, left at the first match
equipment_match(equipment, doc) ==
    \E i \in DOMAIN doc.equipment_types :
        contains(lower(doc.equipment_types[i]), lower(equipment))

\* the number of entries of equipment_types that match
equipment_match_count(equipment, doc) ==
    Cardinality({i \in DOMAIN doc.equipment_types :
        contains(lower(doc.equipment_types[i]), lower(equipment))})

\* doc.get('content', '') or doc.get('title', '') or doc.get('description', '')
content_text(doc) ==
    or_else(or_else(get(doc.content, <<>>), get(doc.title, <<>>)),
            get(doc.description, <<>>))

\* the score one pass of the loop body gives a document, in tenths
doc_score_every_entry(code, equipment, doc) ==
    (IF fault_code_match(code, doc) THEN 8 ELSE 0)
    + 6 * equipment_match_count(equipment, doc)
    + (IF contains(content_text(doc), code) THEN 4 ELSE 0)

doc_score(code, equipment, doc) ==
    (IF fault_code_match(code, doc) THEN 8 ELSE 0)
    + (IF equipment_match(equipment, doc) THEN 6 ELSE 0)
    + (IF contains(content_text(doc), code) THEN 4 ELSE 0)

\* if score > best_score
is_better_or_equal(points, best) == points >= best

\* a threshold mistaken for the comparison with the running best
is_better_above_half(points, best) == points > best /\ points > 5

is_better(points, best) == points > best

\* the section a line switches to, "none" if it is no section header
WordSAFETY == <<"S", "A", "F", "E", "T", "Y">>
WordDIAGNOSTIC == <<"D", "I", "A", "G", "N", "O", "S", "T", "I", "C">>
WordREPAIR == <<"R", "E", "P", "A", "I", "R">>
WordRESOLUTION == <<"R", "E", "S", "O", "L", "U", "T", "I", "O", "N">>
WordVERIFICATION == <<"V", "E", "R", "I", "F", "I", "C", "A", "T", "I", "O", "N">>

section_trigger_verification_first(line) ==
    LET u == upper(line)
    IN  IF contains(u, WordVERIFICATION) THEN "verification"
        ELSE IF contains(u, WordSAFETY) THEN "safety"
        ELSE IF contains(u, WordDIAGNOSTIC) THEN "diagnostic"
        ELSE IF contains(u, WordREPAIR) \/ contains(u, WordRESOLUTION) THEN "repair"
        ELSE "none"

section_trigger(line) ==
    LET u == upper(line)
    IN  IF contains(u, WordSAFETY) THEN "safety"
        ELSE IF contains(u, WordDIAGNOSTIC) THEN "diagnostic"
        ELSE IF contains(u, WordREPAIR) \/ contains(u, WordRESOLUTION) THEN "repair"
        ELSE IF contains(u, WordVERIFICATION) THEN "verification"
        ELSE "none"

\* line.startswith(('1.', '2.', '3.', '4.', '5.', '-'))
StepMarkers == {<<"1", ".">>, <<"2", ".">>, <<"3", ".">>, <<"4", ".">>, <<"5", ".">>, <<"-">>}

is_step_line(line) == \E m \in StepMarkers : startswith(line, m)

\* a variant that puts a captured step in front of its list
scan_line_prepend(acc, raw) ==
    LET line == strip(raw)
    IN  IF line = <<>> THEN acc
        ELSE IF section_trigger(line) # "none"
        THEN [acc EXCEPT !.current_section = section_trigger(line)]
        ELSE IF is_step_line(line) /\ acc.current_section # "none"
        THEN [acc EXCEPT ![acc.current_section] = <<line>> \o @]
        ELSE acc

\* a variant that looks for the list marker before the section words
scan_line_marker_first(acc, raw) ==
    LET line == strip(raw)
    IN  IF line = <<>> THEN acc
        ELSE IF is_step_line(line) /\ acc.current_section # "none"
        THEN [acc EXCEPT ![acc.current_section] = Append(@, line)]
        ELSE IF section_trigger(line) # "none"
        THEN [acc EXCEPT !.current_section = section_trigger(line)]
        ELSE acc

\* a variant in which a step met before any header goes to the repair list
scan_line_default_repair(acc, raw) ==
    LET line == strip(raw)
        target == IF acc.current_section = "none" THEN "repair"
                  ELSE acc.current_section
    IN  IF line = <<>> THEN acc
        ELSE IF section_trigger(line) # "none"
        THEN [acc EXCEPT !.current_section = section_trigger(line)]
        ELSE IF is_step_line(line)
        THEN [acc EXCEPT ![target] = Append(@, line)]
        ELSE acc

\* One pass of the body of `for line in lines`: acc is the record of
\* current_section and the four step lists.
scan_line(acc, raw) ==
    LET line == strip(raw)
    IN  IF line = <<>> THEN acc
        ELSE IF section_trigger(line) # "none"
        THEN [acc EXCEPT !.current_section = section_trigger(line)]
        ELSE IF is_step_line(line) /\ acc.current_section # "none"
        THEN [acc EXCEPT ![acc.current_section] = Append(@, line)]
        ELSE acc

NoSteps ==
    [current_section |-> "none", safety |-> <<>>, diagnostic |-> <<>>,
     repair |-> <<>>, verification |-> <<>>]

\* the estimated time and the tools of a category
estimated_time(category) ==
    IF category = "Cable Fault" THEN "4-8 hours"
    ELSE IF category = "Major" THEN "2-4 hours"
    ELSE "30 minutes - 1 hour"

required_tools(category) ==
    IF category = "Cable Fault"
    THEN <<"TDR", "Spectrum Analyzer", "Splice Kit", "Excavation Tools">>
    ELSE IF category = "Major"
    THEN <<"Optical Power Meter", "Laptop", "Console Cable">>
    ELSE <<"Signal Level Meter", "Laptop">>

\* best_match.get('content', best_match.get('title', 'No content available'))
NoContentAvailable ==
    <<"N", "o", " ", "c", "o", "n", "t", "e", "n", "t", " ", "a", "v", "a",
      "i", "l", "a", "b", "l", "e">>

procedure_content(doc) == get(doc.content, get(doc.title, NoContentAvailable))

\* the dict returned for a matched document
specific_procedure(doc, points, acc) ==
    [source_document |-> doc.document_id,
     document_title |-> doc.title,
     category |-> doc.category,
     confidence |-> points,
     safety_steps |-> acc.safety,
     diagnostic_steps |-> acc.diagnostic,
     repair_steps |-> acc.repair,
     verification_steps |-> acc.verification,
     estimated_time |-> estimated_time(doc.category),
     required_tools |-> required_tools(doc.category),
     full_content |-> procedure_content(doc)]

\* the texts of the generic procedure
GenericSafety1 ==
    <<"E", "n", "s", "u", "r", "e", " ", "p", "r", "o", "p", "e", "r", " ",
      "P", "P", "E", " ", "(", "h", "a", "r", "d", " ", "h", "a", "t", ",",
      " ", "s", "a", "f", "e", "t", "y", " ", "v", "e", "s", "t", ",", " ",
      "g", "l", "o", "v", "e", "s", ")">>
GenericSafety2 ==
    <<"C", "h", "e", "c", "k", " ", "f", "o", "r", " ", "e", "l", "e", "c",
      "t", "r", "i", "c", "a", "l", " ", "h", "a", "z", "a", "r", "d", "s",
      " ", "b", "e", "f", "o", "r", "e", " ", "s", "t", "a", "r", "t", "i",
      "n", "g", " ", "w", "o", "r", "k">>
GenericSafety3 ==
    <<"E", "s", "t", "a", "b", "l", "i", "s", "h", " ", "s", "a", "f", "e",
      "t", "y", " ", "p", "e", "r", "i", "m", "e", "t", "e", "r", " ", "a",
      "r", "o", "u", "n", "d", " ", "w", "o", "r", "k", " ", "a", "r", "e",
      "a">>
GenericSafety4 ==
    <<"V", "e", "r", "i", "f", "y", " ", "e", "q", "u", "i", "p", "m", "e",
      "n", "t", " ", "i", "s", " ", "p", "r", "o", "p", "e", "r", "l", "y",
      " ", "g", "r", "o", "u", "n", "d", "e", "d">>
GenericDiagnostic1 ==
    <<"R", "e", "v", "i", "e", "w", " ", "f", "a", "u", "l", "t", " ", "d",
      "e", "s", "c", "r", "i", "p", "t", "i", "o", "n", " ", "a", "n", "d",
      " ", "e", "r", "r", "o", "r", " ", "c", "o", "d", "e", "s">>
GenericDiagnostic2 ==
    <<"C", "h", "e", "c", "k", " ", "s", "y", "s", "t", "e", "m", " ", "a",
      "l", "a", "r", "m", "s", " ", "a", "n", "d", " ", "s", "t", "a", "t",
      "u", "s", " ", "i", "n", "d", "i", "c", "a", "t", "o", "r", "s">>
GenericDiagnostic3 ==
    <<"P", "e", "r", "f", "o", "r", "m", " ", "i", "n", "i", "t", "i", "a",
      "l", " ", "v", "i", "s", "u", "a", "l", " ", "i", "n", "s", "p", "e",
      "c", "t", "i", "o", "n">>
GenericDiagnostic4 ==
    <<"T", "e", "s", "t", " ", "s", "i", "g", "n", "a", "l", " ", "l", "e",
      "v", "e", "l", "s", " ", "a", "n", "d", " ", "c", "o", "n", "n", "e",
      "c", "t", "i", "v", "i", "t", "y">>
GenericRepair1 ==
    <<"F", "o", "l", "l", "o", "w", " ", "m", "a", "n", "u", "f", "a", "c",
      "t", "u", "r", "e", "r", " ", "g", "u", "i", "d", "e", "l", "i", "n",
      "e", "s", " ", "f", "o", "r", " ", "t", "h", "e", " ", "e", "q", "u",
      "i", "p", "m", "e", "n", "t">>
GenericRepair2 ==
    <<"R", "e", "p", "l", "a", "c", "e", " ", "o", "r", " ", "r", "e", "p",
      "a", "i", "r", " ", "f", "a", "u", "l", "t", "y", " ", "c", "o", "m",
      "p", "o", "n", "e", "n", "t", "s", " ", "a", "s", " ", "n", "e", "e",
      "d", "e", "d">>
GenericRepair3 ==
    <<"E", "n", "s", "u", "r", "e", " ", "a", "l", "l", " ", "c", "o", "n",
      "n", "e", "c", "t", "i", "o", "n", "s", " ", "a", "r", "e", " ", "s",
      "e", "c", "u", "r", "e">>
GenericRepair4 ==
    <<"U", "p", "d", "a", "t", "e", " ", "s", "y", "s", "t", "e", "m", " ",
      "c", "o", "n", "f", "i", "g", "u", "r", "a", "t", "i", "o", "n", " ",
      "i", "f", " ", "r", "e", "q", "u", "i", "r", "e", "d">>
GenericVerification1 ==
    <<"T", "e", "s", "t", " ", "s", "y", "s", "t", "e", "m", " ", "f", "u",
      "n", "c", "t", "i", "o", "n", "a", "l", "i", "t", "y", " ", "a", "f",
      "t", "e", "r", " ", "r", "e", "p", "a", "i", "r">>
GenericVerification2 ==
    <<"V", "e", "r", "i", "f", "y", " ", "s", "i", "g", "n", "a", "l", " ",
      "l", "e", "v", "e", "l", "s", " ", "a", "r", "e", " ", "w", "i", "t",
      "h", "i", "n", " ", "s", "p", "e", "c", "i", "f", "i", "c", "a", "t",
      "i", "o", "n", "s">>
GenericVerification3 ==
    <<"C", "h", "e", "c", "k", " ", "f", "o", "r", " ", "a", "n", "y", " ",
      "r", "e", "m", "a", "i", "n", "i", "n", "g", " ", "a", "l", "a", "r",
      "m", "s", " ", "o", "r", " ", "e", "r", "r", "o", "r", "s">>
GenericVerification4 ==
    <<"D", "o", "c", "u", "m", "e", "n", "t", " ", "r", "e", "p", "a", "i",
      "r", " ", "a", "c", "t", "i", "o", "n", "s", " ", "a", "n", "d", " ",
      "t", "e", "s", "t", " ", "r", "e", "s", "u", "l", "t", "s">>
GenericTitle ==
    <<"G", "e", "n", "e", "r", "i", "c", " ", "R", "e", "p", "a", "i", "r",
      " ", "P", "r", "o", "c", "e", "d", "u", "r", "e">>
GenericContentPrefix ==
    <<"G", "e", "n", "e", "r", "i", "c", " ", "r", "e", "p", "a", "i", "r",
      " ", "p", "r", "o", "c", "e", "d", "u", "r", "e", " ", "f", "o", "r",
      " ">>

\* the dict returned when no document matched
generic_procedure(description) ==
    [document_id |-> "GENERIC",
     title |-> GenericTitle,
     safety_steps |-> <<GenericSafety1, GenericSafety2, GenericSafety3, GenericSafety4>>,
     diagnostic_steps |->
        <<GenericDiagnostic1, GenericDiagnostic2, GenericDiagnostic3, GenericDiagnostic4>>,
     repair_steps |-> <<GenericRepair1, GenericRepair2, GenericRepair3, GenericRepair4>>,
     verification_steps |->
        <<GenericVerification1, GenericVerification2, GenericVerification3,
          GenericVerification4>>,
     estimated_time |-> "2-4 hours",
     required_tools |-> <<"Standard toolkit", "Multimeter", "Signal analyzer">>,
     full_content |-> GenericContentPrefix \o description]

NoMatch == [doc |-> NULL, score |-> 0]

RECURSIVE best_of(_, _, _, _)
\* the matching loop over docs, from the running best
best_of(code, equipment, docs, best) ==
    IF docs = <<>> THEN best
    ELSE LET points == doc_score(code, equipment, Head(docs))
         IN  best_of(code, equipment, Tail(docs),
                     IF is_better(points, best.score)
                     THEN [doc |-> <<Head(docs)>>, score |-> points] ELSE best)

RECURSIVE scan_lines(_, _)
\* the extraction loop over lines, from the running state
scan_lines(acc, rest) ==
    IF rest = <<>> THEN acc
    ELSE scan_lines(scan_line(acc, Head(rest)), Tail(rest))

\* the whole function
generate_repair_procedure(code, equipment, description, docs) ==
    LET best == best_of(code, equipment, docs, NoMatch)
    IN  IF best.doc = NULL
        THEN generic_procedure(description)
        ELSE specific_procedure(best.doc[1], best.score,
                scan_lines(NoSteps, split(procedure_content(best.doc[1]), "\n")))

(***************************************************************************)
(* field_engineer_app/app.py : load_fault_data                             *)
(***************************************************************************)

\* The body of the field app's load_fault_data, run at wall-clock time t:
\* (df, sop_docs).  A fault view with a timestamp column names it
\* fault_timestamp and carries resolution_timestamp, so the branches for the
\* other column names are not taken.
TimestampColumns == {"fault_timestamp", "timestamp", "created_at", "fault_time"}

\* the columns of the fault view
table_columns(rows) == IF rows = <<>> THEN {} ELSE DOMAIN rows[1]

\* the columns of the frame in the except branch
EmptyFrameColumnsField ==
    {"fault_id", "fault_timestamp", "fault_category", "fault_code",
     "equipment_type", "location", "customers_affected", "service_calls",
     "technician_type_required", "resolution_timestamp", "is_resolved",
     "hours_since_fault", "created_date", "resolution_date", "business_hours_fault"}

\* df.columns of the frame load_fault_data returns
loaded_columns_field(up, rows) ==
    IF ~up THEN EmptyFrameColumnsField
    ELSE IF table_columns(rows) \cap TimestampColumns = {}
    THEN {}                            \* return pd.DataFrame(), []
    ELSE table_columns(rows) \cup {"is_resolved", "hours_since_fault"}

\* a variant for which a missing procedure table is an error like any other
load_fault_data_field_strict(up, rows, sops, t) ==
    IF ~up \/ ~sops.up \/ table_columns(rows) \cap TimestampColumns = {}
    THEN [df |-> <<>>, sop_docs |-> <<>>]
    ELSE [df |-> [i \in DOMAIN rows |->
                    WithColumns(rows[i],
                        [is_resolved |-> (rows[i].resolution_timestamp # NULL),
                         hours_since_fault |-> t - rows[i].fault_timestamp])],
          sop_docs |-> sops.rows]

load_fault_data_field(up, rows, sops, t) ==
    IF ~up
    THEN [df |-> <<>>, sop_docs |-> <<>>]
    ELSE IF table_columns(rows) \cap TimestampColumns = {}
    THEN [df |-> <<>>, sop_docs |-> <<>>]      \* "No timestamp column found"
    ELSE [df |-> [i \in DOMAIN rows |->
                    WithColumns(rows[i],
                        [is_resolved |-> (rows[i].resolution_timestamp # NULL),
                         hours_since_fault |-> t - rows[i].fault_timestamp])],
          sop_docs |-> IF sops.up THEN sops.rows ELSE <<>>]

cached_value_field(c, up, rows, sops, t) ==
    IF c = <<>> THEN load_fault_data_field(up, rows, sops, t) ELSE c[1]

(***************************************************************************)
(* field_engineer_app/app.py : search_sop_documents_cortex                 *)
(***************************************************************************)
StubTitle1 ==
    <<"C", "a", "b", "l", "e", " ", "F", "a", "u", "l", "t", " ", "R", "e",
      "s", "o", "l", "u", "t", "i", "o", "n", " ", "P", "r", "o", "c", "e",
      "d", "u", "r", "e", "s">>
StubTitle2 ==
    <<"S", "e", "r", "v", "i", "c", "e", " ", "D", "e", "g", "r", "a", "d",
      "a", "t", "i", "o", "n", " ", "T", "r", "o", "u", "b", "l", "e", "s",
      "h", "o", "o", "t", "i", "n", "g">>
StubPrefix1 ==
    <<"S", "e", "a", "r", "c", "h", " ", "r", "e", "s", "u", "l", "t", "s",
      " ", "f", "o", "r", ":", " ">>
StubSuffix1 ==
    <<"\n", "\n", "S", "A", "F", "E", "T", "Y", " ", "R", "E", "Q", "U", "I",
      "R", "E", "M", "E", "N", "T", "S", ":", "\n", "-", " ", "E", "n", "s",
      "u", "r", "e", " ", "p", "r", "o", "p", "e", "r", " ", "P", "P", "E",
      " ", "(", "h", "a", "r", "d", " ", "h", "a", "t", ",", " ", "s", "a",
      "f", "e", "t", "y", " ", "v", "e", "s", "t", ",", " ", "g", "l", "o",
      "v", "e", "s", ")", "\n", "-", " ", "C", "h", "e", "c", "k", " ", "f",
      "o", "r", " ", "e", "l", "e", "c", "t", "r", "i", "c", "a", "l", " ",
      "h", "a", "z", "a", "r", "d", "s", "\n", "-", " ", "E", "s", "t", "a",
      "b", "l", "i", "s", "h", " ", "s", "a", "f", "e", "t", "y", " ", "p",
      "e", "r", "i", "m", "e", "t", "e", "r">>
StubPrefix2 ==
    <<"D", "i", "a", "g", "n", "o", "s", "t", "i", "c", " ", "s", "t", "e",
      "p", "s", " ", "f", "o", "r", ":", " ">>
StubSuffix2 ==
    <<"\n", "\n", "I", "N", "I", "T", "I", "A", "L", " ", "A", "S", "S", "E",
      "S", "S", "M", "E", "N", "T", ":", "\n", "-", " ", "C", "h", "e", "c",
      "k", " ", "s", "y", "s", "t", "e", "m", " ", "a", "l", "a", "r", "m",
      "s", "\n", "-", " ", "R", "e", "v", "i", "e", "w", " ", "t", "r", "a",
      "f", "f", "i", "c", " ", "p", "a", "t", "t", "e", "r", "n", "s", "\n",
      "-", " ", "I", "d", "e", "n", "t", "i", "f", "y", " ", "a", "f", "f",
      "e", "c", "t", "e", "d", " ", "a", "r", "e", "a", "s">>
FallbackTitle ==
    <<"S", "e", "a", "r", "c", "h", " ", "S", "e", "r", "v", "i", "c", "e",
      " ", "U", "n", "a", "v", "a", "i", "l", "a", "b", "l", "e">>
FallbackPrefix ==
    <<"U", "n", "a", "b", "l", "e", " ", "t", "o", " ", "s", "e", "a", "r",
      "c", "h", " ", "f", "o", "r", ":", " ">>
FallbackSuffix ==
    <<".", " ", "P", "l", "e", "a", "s", "e", " ", "c", "h", "e", "c", "k",
      " ", "s", "y", "s", "t", "e", "m", " ", "c", "o", "n", "n", "e", "c",
      "t", "i", "v", "i", "t", "y", ".">>

\* query, then " " + fault_code and " " + equipment_type when they are given
enhanced_query(text, code, equipment) ==
    text \o (IF code # <<>> THEN <<" ">> \o code ELSE <<>>)
          \o (IF equipment # <<>> THEN <<" ">> \o equipment ELSE <<>>)

\* a variant that lists the weaker result first
stub_results_ascending(enhanced) ==
    << [document_id |-> "SOP-002", title |-> StubTitle2, category |-> "Major",
        relevance_score |-> 75,
        content_excerpt |-> StubPrefix2 \o enhanced \o StubSuffix2],
       [document_id |-> "SOP-001", title |-> StubTitle1, category |-> "Cable Fault",
        relevance_score |-> 95,
        content_excerpt |-> StubPrefix1 \o enhanced \o StubSuffix1] >>

\* the two simulated results, relevance in hundredths
stub_results(enhanced) ==
    << [document_id |-> "SOP-001", title |-> StubTitle1, category |-> "Cable Fault",
        relevance_score |-> 95,
        content_excerpt |-> StubPrefix1 \o enhanced \o StubSuffix1],
       [document_id |-> "SOP-002", title |-> StubTitle2, category |-> "Major",
        relevance_score |-> 75,
        content_excerpt |-> StubPrefix2 \o enhanced \o StubSuffix2] >>

\* a variant that answers a failure with no result
fallback_results_none(text) == <<>>

fallback_results(text) ==
    << [document_id |-> "SOP-FALLBACK", title |-> FallbackTitle, category |-> "System",
        relevance_score |-> 50,
        content_excerpt |-> FallbackPrefix \o text \o FallbackSuffix] >>

\* s[:n]
head(seq, n) == SubSeq(seq, 1, IF Len(seq) < n THEN Len(seq) ELSE n)

\* s[-n:]
tail(seq, n) == SubSeq(seq, IF Len(seq) < n THEN 1 ELSE Len(seq) - n + 1, Len(seq))

\* a variant whose relevance filter reads the titles only
search_sop_documents_cortex_by_title(up, text, code, equipment) ==
    IF ~up
    THEN fallback_results(text)
    ELSE LET enhanced == enhanced_query(text, code, equipment)
             query_lower == lower(enhanced)
             Relevant(result) == contains(lower(result.title), query_lower)
         IN  head(SelectSeq(stub_results(enhanced), Relevant), 3)

\* An absent fault_code or equipment_type (None) is the empty string: both
\* are tested for truth only.
search_sop_documents_cortex(up, text, code, equipment) ==
    IF ~up
    THEN fallback_results(text)       \* get_active_session() raised
    ELSE LET enhanced == enhanced_query(text, code, equipment)
             query_lower == lower(enhanced)
             Relevant(result) ==
                \/ contains(lower(result.title), query_lower)
                \/ contains(lower(result.content_excerpt), query_lower)
                \/ (code # <<>> /\ contains(result.content_excerpt, code))
         IN  head(SelectSeq(stub_results(enhanced), Relevant), 3)

\* one call
SearchSopDocuments ==
    /\ pc = "search"
    /\ results' = <<search_sop_documents_cortex(store_up, query, fault_code,
                                                equipment_type)>>
    /\ pc' = "done"
    /\ UNCHANGED <<appVars, callArgs, matchVars, extractVars, procedure,
                   content, query, max_length, excerpt>>

(***************************************************************************)
(* field_engineer_app/app.py : extract_relevant_excerpt                    *)
(***************************************************************************)
ContextBefore == 100        \* characters kept before the query
DefaultMaxLength == 500     \* max_length=500

Ellipsis == <<".", ".", ".">>

\* str.find: the 0-based position of the first occurrence, or -1
find(haystack, needle) ==
    LET hits == {i \in 0 .. (Len(haystack) - Len(needle)) :
                    SubSeq(haystack, i + 1, i + Len(needle)) = needle}
    IN  IF hits = {} THEN -1 ELSE CHOOSE i \in hits : \A j \in hits : i <= j

\* s[start:stop] of Python: a negative index counts from the end, and both
\* are then confined to 0 .. len(s)
slice(s, start, stop) ==
    LET Index(i) == IF i < 0 THEN (IF Len(s) + i < 0 THEN 0 ELSE Len(s) + i)
                    ELSE IF i > Len(s) THEN Len(s) ELSE i
    IN  IF Index(start) >= Index(stop) THEN <<>>
        ELSE SubSeq(s, Index(start) + 1, Index(stop))

\* a variant whose window starts at the query
extract_relevant_excerpt_from_query(text, wanted, limit) ==
    LET pos == find(lower(text), lower(wanted))
    IN  IF pos # -1
        THEN slice(text, pos, pos + limit)
                \o (IF pos + limit < Len(text) THEN Ellipsis ELSE <<>>)
        ELSE slice(text, 0, limit) \o (IF Len(text) > limit THEN Ellipsis ELSE <<>>)

\* a variant that marks every excerpt of a found query on both sides
extract_relevant_excerpt_marked(text, wanted, limit) ==
    LET pos == find(lower(text), lower(wanted))
        start == IF pos - ContextBefore > 0 THEN pos - ContextBefore ELSE 0
        end == IF pos + limit - ContextBefore < Len(text)
               THEN pos + limit - ContextBefore ELSE Len(text)
    IN  IF pos # -1
        THEN Ellipsis \o slice(text, start, end) \o Ellipsis
        ELSE slice(text, 0, limit) \o (IF Len(text) > limit THEN Ellipsis ELSE <<>>)

\* a variant that marks the beginning of a content as cut when it fills
\* max_length exactly
extract_relevant_excerpt_full_marked(text, wanted, limit) ==
    LET pos == find(lower(text), lower(wanted))
        start == IF pos - ContextBefore > 0 THEN pos - ContextBefore ELSE 0
        end == IF pos + limit - ContextBefore < Len(text)
               THEN pos + limit - ContextBefore ELSE Len(text)
    IN  IF pos # -1
        THEN (IF start > 0 THEN Ellipsis ELSE <<>>) \o slice(text, start, end)
                \o (IF end < Len(text) THEN Ellipsis ELSE <<>>)
        ELSE slice(text, 0, limit) \o (IF Len(text) >= limit THEN Ellipsis ELSE <<>>)

\* extract_relevant_excerpt(content, query, max_length)
extract_relevant_excerpt(text, wanted, limit) ==
    LET query_lower == lower(wanted)
        content_lower == lower(text)
        pos == find(content_lower, query_lower)
        start == IF pos - ContextBefore > 0 THEN pos - ContextBefore ELSE 0
        end == IF pos + limit - ContextBefore < Len(text)
               THEN pos + limit - ContextBefore ELSE Len(text)
    IN  IF pos # -1
        THEN (IF start > 0 THEN Ellipsis ELSE <<>>)
                \o slice(text, start, end)
                \o (IF end < Len(text) THEN Ellipsis ELSE <<>>)
        ELSE slice(text, 0, limit) \o (IF Len(text) > limit THEN Ellipsis ELSE <<>>)

\* one call
ExtractRelevantExcerpt ==
    /\ pc = "excerpt"
    /\ excerpt' = <<extract_relevant_excerpt(content, query, max_length)>>
    /\ pc' = "done"
    /\ UNCHANGED <<appVars, callArgs, matchVars, extractVars, procedure,
                   content, query, max_length, results>>

(***************************************************************************)
(* field_engineer_app/app.py : main and the panels it calls                *)
(***************************************************************************)

\* a variant that offers every unresolved fault
assigned_faults_uncapped(df) ==
    LET Active(r) == ~r.is_resolved
    IN  SelectSeq(df, Active)

\* display_assigned_faults: the rows that get a "Get Repair Guidance" button
assigned_faults(df) ==
    LET Active(r) == ~r.is_resolved
    IN  head(SelectSeq(df, Active), 10)

\* the assistant's answer to a question; the text of the message is kept as
\* the fields it is formatted from
assistant_response(up, question) ==
    LET search_results == search_sop_documents_cortex(up, question, <<>>, <<>>)
    IN  IF search_results # <<>>
        THEN [found |-> TRUE, source |-> search_results[1]]
        ELSE [found |-> FALSE, source |-> <<>>]

\* display_repair_procedure: what the panel of the selected fault puts on the
\* page in a run in which the button `pressed` was clicked ("none": no
\* button).  A section is drawn only if its list is not empty, which the list
\* itself records; the full content is drawn under "View Full SOP" only.
display_repair_procedure(fault_info, docs, pressed) ==
    LET shown == generate_repair_procedure(fault_info.fault_code,
                    fault_info.equipment_type, fault_info.fault_description, docs)
    IN  [fault_id |-> fault_info.fault_id,
         safety_steps |-> shown.safety_steps,
         estimated_time |-> shown.estimated_time,
         required_tools |-> shown.required_tools,
         diagnostic_steps |-> shown.diagnostic_steps,
         repair_steps |-> shown.repair_steps,
         verification_steps |-> shown.verification_steps,
         message |-> IF pressed \in {"complete", "help"} THEN pressed ELSE "none",
         full_content |-> IF pressed = "full_sop" THEN <<shown.full_content>> ELSE NULL]

\* What one run of the field script shows: the script stops after the error
\* notice on an empty frame; feedback is the output of the button pressed in
\* this run, if any.
field_page(loaded, selected, history, feedback) ==
    IF loaded.df = <<>>
    THEN [kind |-> "error", offered |-> <<>>, procedure |-> <<>>,
          feedback |-> "none", chat |-> <<>>, documents |-> <<>>, panel |-> <<>>]
    ELSE [kind |-> "field",
          offered |-> assigned_faults(loaded.df),
          procedure |->
            IF selected = NULL THEN <<>>
            ELSE <<generate_repair_procedure(selected[1].fault_code,
                        selected[1].equipment_type, selected[1].fault_description,
                        loaded.sop_docs)>>,
          feedback |-> feedback,
          chat |-> tail(history, 10),
          documents |-> loaded.sop_docs,
          panel |->
            IF selected = NULL THEN <<>>
            ELSE <<display_repair_procedure(selected[1], loaded.sop_docs, feedback)>>]

\* a run of the field script in which the widget event leaves the session
\* state as it is
FieldRun(feedback) ==
    LET loaded == cached_value_field(cache, store_up, store, sop_table, now)
    IN  /\ cache' = cache_entry(cache, loaded, loaded_columns_field(store_up, store))
        /\ view' = field_page(loaded, selected_fault, chat_history, feedback)
        /\ UNCHANGED <<app, now, store_up, tables, session, procVars, textVars>>

\* opening or reloading the page
FieldOpen ==
    /\ app = "field"
    /\ FieldRun("none")

\* "Get Repair Guidance" on the i-th offered fault: the snapshot of the row
\* is stored and st.rerun() renders the page again
GetRepairGuidance(i) ==
    /\ app = "field"
    /\ view.kind = "field"
    /\ i \in DOMAIN view.offered
    /\ LET loaded == cached_value_field(cache, store_up, store, sop_table, now)
           fault == assigned_faults(loaded.df)[i]
       IN  /\ cache' = cache_entry(cache, loaded, loaded_columns_field(store_up, store))
           /\ selected_fault' = <<fault>>
           /\ view' = field_page(loaded, <<fault>>, chat_history, "none")
    /\ UNCHANGED <<app, now, store_up, tables, chat_history, procVars, textVars>>

\* a variant that keeps only the ten newest messages in the session
display_ai_chat_interface_trimmed(user_question) ==
    /\ app = "field"
    /\ view.kind = "field"
    /\ LET loaded == cached_value_field(cache, store_up, store, sop_table, now)
           asked == [role |-> "user", content |-> user_question, timestamp |-> now]
           answered == [role |-> "assistant",
                        content |-> assistant_response(store_up, user_question),
                        timestamp |-> now]
           history == IF user_question # <<>>
                      THEN tail(chat_history \o <<asked, answered>>, 10)
                      ELSE chat_history
       IN  /\ cache' = cache_entry(cache, loaded, loaded_columns_field(store_up, store))
           /\ chat_history' = history
           /\ view' = field_page(loaded, selected_fault, history, "none")
    /\ UNCHANGED <<app, now, store_up, tables, selected_fault, procVars, textVars>>

\* display_ai_chat_interface in a run in which "Ask Assistant" was clicked
\* with user_question in the chat input
display_ai_chat_interface(user_question) ==
    /\ app = "field"
    /\ view.kind = "field"
    /\ LET loaded == cached_value_field(cache, store_up, store, sop_table, now)
           asked == [role |-> "user", content |-> user_question, timestamp |-> now]
           answered == [role |-> "assistant",
                        content |-> assistant_response(store_up, user_question),
                        timestamp |-> now]
           history == IF user_question # <<>>
                      THEN chat_history \o <<asked, answered>>
                      ELSE chat_history
       IN  /\ cache' = cache_entry(cache, loaded, loaded_columns_field(store_up, store))
           /\ chat_history' = history
           /\ view' = field_page(loaded, selected_fault, history, "none")
    /\ UNCHANGED <<app, now, store_up, tables, selected_fault, procVars, textVars>>

\* "Ask Assistant" in an interactive session
AskAssistant(user_question) ==
    /\ Len(chat_history) < 2 * MaxAsks
    /\ display_ai_chat_interface(user_question)

\* "Ask Assistant" in a long conversation
AskAgain(user_question) ==
    /\ Len(chat_history) < 2 * MaxChatAsks
    /\ display_ai_chat_interface(user_question)

\* a variant that writes the resolution into the frame
MarkCompleteAndResolve ==
    /\ app = "field"
    /\ view.kind = "field"
    /\ view.procedure # <<>>
    /\ cache' = << [cache[1] EXCEPT !.df =
                    [i \in DOMAIN cache[1].df |->
                        IF cache[1].df[i].fault_id = selected_fault[1].fault_id
                        THEN [cache[1].df[i] EXCEPT !.resolution_timestamp = <<now>>,
                                                    !.is_resolved = TRUE]
                        ELSE cache[1].df[i]]], cache[2] >>
    /\ view' = field_page(cache'[1], selected_fault, chat_history, "complete")
    /\ UNCHANGED <<app, now, store_up, tables, session, procVars, textVars>>

\* "Mark Complete": the success message, and nothing else
MarkComplete ==
    /\ app = "field"
    /\ view.kind = "field"
    /\ view.procedure # <<>>
    /\ FieldRun("complete")

\* "Need Help": the info message
NeedHelp ==
    /\ app = "field"
    /\ view.kind = "field"
    /\ view.procedure # <<>>
    /\ FieldRun("help")

\* "View Full SOP": the expander with procedure['full_content']
ViewFullSOP ==
    /\ app = "field"
    /\ view.kind = "field"
    /\ view.procedure # <<>>
    /\ FieldRun("full_sop")

\* "View Procedure" on the i-th document of the Procedures tab
ViewProcedure(i) ==
    /\ app = "field"
    /\ view.kind = "field"
    /\ i \in DOMAIN view.documents
    /\ FieldRun(<<"SOP-001", "SOP-002", "SOP-003", "SOP-004">>[i])

(***************************************************************************)
(* generate_repair_procedure, one statement at a time                      *)
(***************************************************************************)

\* the body of `for doc in sop_docs`
ScoreDoc ==
    /\ pc = "match"
    /\ doc_index <= Len(sop_docs)
    /\ LET doc == sop_docs[doc_index]
           points == doc_score(fault_code, equipment_type, doc)
       IN  /\ score' = points
           /\ IF is_better(points, best_score)
              THEN best_score' = points /\ best_match' = <<doc>>
              ELSE UNCHANGED <<best_score, best_match>>
    /\ doc_index' = doc_index + 1
    /\ UNCHANGED <<appVars, pc, callArgs, extractVars, procedure, textVars>>

\* if not best_match: return the generic procedure
ReturnGeneric ==
    /\ pc = "match"
    /\ doc_index > Len(sop_docs)
    /\ best_match = NULL
    /\ procedure' = <<generic_procedure(fault_description)>>
    /\ pc' = "done"
    /\ UNCHANGED <<appVars, callArgs, matchVars, extractVars, textVars>>

\* content = ...; the four empty lists; lines = content.split('\n')
SplitContent ==
    /\ pc = "match"
    /\ doc_index > Len(sop_docs)
    /\ best_match # NULL
    /\ lines' = split(procedure_content(best_match[1]), "\n")
    /\ line_index' = 1
    /\ current_section' = "none"
    /\ safety_steps' = <<>>
    /\ diagnostic_steps' = <<>>
    /\ repair_steps' = <<>>
    /\ verification_steps' = <<>>
    /\ pc' = "extract"
    /\ UNCHANGED <<appVars, callArgs, matchVars, procedure, textVars>>

\* the local variables of the extraction loop as one record
Acc ==
    [current_section |-> current_section, safety |-> safety_steps,
     diagnostic |-> diagnostic_steps, repair |-> repair_steps,
     verification |-> verification_steps]

\* the body of `for line in lines`
ScanLine ==
    /\ pc = "extract"
    /\ line_index <= Len(lines)
    /\ LET acc == scan_line(Acc, lines[line_index])
       IN  /\ current_section' = acc.current_section
           /\ safety_steps' = acc.safety
           /\ diagnostic_steps' = acc.diagnostic
           /\ repair_steps' = acc.repair
           /\ verification_steps' = acc.verification
    /\ line_index' = line_index + 1
    /\ UNCHANGED <<appVars, pc, callArgs, matchVars, lines, procedure, textVars>>

\* the final return
ReturnProcedure ==
    /\ pc = "extract"
    /\ line_index > Len(lines)
    /\ procedure' = <<specific_procedure(best_match[1], best_score, Acc)>>
    /\ pc' = "done"
    /\ UNCHANGED <<appVars, callArgs, matchVars, extractVars, textVars>>

(***************************************************************************)
(* The environment                                                         *)
(***************************************************************************)

SessionStart == 24      \* the hour at which the process starts (day 1, 00:00)

Tick ==
    /\ now < SessionStart + MaxTicks
    /\ now' = now + 1
    /\ UNCHANGED <<app, store_up, tables, cache, view, session, procVars, textVars>>

StoreAvailabilityChanges ==
    /\ store_up' = ~store_up
    /\ UNCHANGED <<app, now, tables, cache, view, session, procVars, textVars>>

(***************************************************************************)
(* Inputs                                                                  *)
(***************************************************************************)

Categories == {"Cable Fault", "Major", "Minor", "Other"}

FaultRow(id, ts, res, cat, points, loc) ==
    [fault_id |-> id, fault_timestamp |-> ts, resolution_timestamp |-> res,
     fault_category |-> cat, priority_score |-> points, location |-> loc,
     fault_code |-> <<"8", "1", "2", ".", "3">>,
     equipment_type |-> <<"c", "B", "R", "-", "8">>,
     fault_description |-> <<"c", "u", "t">>]

\* every combination of the fields the derived columns read
AnyFaultRows ==
    {FaultRow("F1", ts, res, cat, points, "Aarhus") :
        ts \in 19 .. 23, res \in {NULL, <<24>>}, cat \in Categories,
        points \in {0, 40, 41, 60, 61, 80, 81, 100}}

TriageRow(id, cat, points) ==
    [FAULT_ID |-> id, PREDICTED_CATEGORY |-> cat, CALCULATED_PRIORITY_SCORE |-> points]

AnyTriage ==
    {[up |-> FALSE, rows |-> <<>>], [up |-> TRUE, rows |-> <<>>],
     [up |-> TRUE, rows |-> <<TriageRow("F2", <<"Major">>, <<81>>)>>]}
    \cup {[up |-> TRUE, rows |-> <<TriageRow("F1", cat, points)>>] :
            cat \in {NULL, <<"Major">>}, points \in {NULL, <<41>>, <<81>>}}

NoSops == [up |-> FALSE, rows |-> <<>>]

\* strings of the inputs
Code8123 == <<"8", "1", "2", ".", "3">>
Code123 == <<"1", "2", ".", "3">>
Code8131 == <<"8", "1", "3", ".", "1">>
Code1001 == <<"1", "0", "0", ".", "1">>
EquipmentCisco == <<"c", "i", "s", "c", "o">>
EntryArris == <<"A", "r", "r", "i", "s", " ", "E", "6">>
EntryCisco == <<"C", "i", "s", "c", "o", " ", "c", "B", "R", "-", "8">>
EntryCiscoUpper == <<"C", "I", "S", "C", "O", " ", "C", "B", "R">>
TextWithCode == <<"s", "e", "e", " ", "8", "1", "2", ".", "3">>
TextWithoutCode == <<"s", "e", "e", " ", "i", "t">>
TitlePlain == <<"T">>
TitleWithCode == <<"T", " ", "8", "1", "2", ".", "3">>
DescriptionCut == <<"c", "u", "t">>
LineSafety == <<"S", "a", "f", "e", "t", "y", " ", "f", "i", "r", "s", "t">>
LineDiagnostic == <<"D", "I", "A", "G", "N", "O", "S", "T", "I", "C">>
LineResolution == <<"R", "e", "s", "o", "l", "u", "t", "i", "o", "n">>
LineVerification == <<"V", "E", "R", "I", "F", "I", "C", "A", "T", "I", "O", "N">>
LineVerificationSafety == <<"V", "e", "r", "i", "f", "i", "c", "a", "t", "i", "o", "n", ",", " ", "S", "A", "F", "E", "T", "Y">>
LineStep1 == <<"1", ".", " ", "a">>
LineStep6 == <<"6", ".", " ", "b">>
LineBullet == <<" ", "-", " ", "c", " ">>
LineNote == <<"n", "o", "t", "e">>
LineBlank == <<" ">>
LineStepRepair == <<"3", ".", " ", "r", "e", "p", "a", "i", "r">>

Doc(id, title, codes, equipment, body, description) ==
    [document_id |-> id, title |-> title, category |-> "Cable Fault",
     equipment_types |-> equipment, fault_codes |-> codes,
     content |-> body, description |-> description]

\* the text fields of a document: content, title, description
DocTexts ==
    { <<<<TextWithCode>>, <<TitlePlain>>, NULL>>,
      <<<<TextWithoutCode>>, <<TitleWithCode>>, NULL>>,
      <<<< <<>> >>, <<TitleWithCode>>, NULL>>,
      <<<< <<>> >>, <<TitlePlain>>, NULL>>,
      <<<< <<>> >>, << <<>> >>, <<TextWithCode>>>> }

\* documents that differ in what the scoring reads
MatchDocs ==
    {Doc("SOP", t[2], codes, equipment, t[1], t[3]) :
        t \in DocTexts,
        codes \in {<<>>, <<Code8131, Code8123>>},
        equipment \in {<<EntryArris>>, <<EntryCisco, EntryCiscoUpper>>}}

ContentLines ==
    {LineSafety, LineDiagnostic, LineResolution, LineVerification,
     LineVerificationSafety, LineStep1, LineStep6, LineBullet,
     LineNote, LineBlank, LineStepRepair}

RECURSIVE SeqsUpTo(_, _)
\* the sequences over S of length at most n
SeqsUpTo(S, n) ==
    IF n = 0 THEN {<<>>}
    ELSE LET shorter == SeqsUpTo(S, n - 1)
         IN  shorter \cup {Append(q, x) : q \in shorter, x \in S}

\* documents that match by fault code and differ in their content
ExtractDocs ==
    {Doc("SOP", <<TitlePlain>>, <<Code8123>>, <<EntryArris>>, <<join(ls, "\n")>>, NULL) :
        ls \in SeqsUpTo(ContentLines, MaxLines)}
    \cup {Doc("SOP", <<LineStep1>>, <<Code8123>>, <<EntryArris>>, NULL, NULL)}

\* the i-th document of a list carries the identifier of its position
Numbered(docs) ==
    [i \in DOMAIN docs |->
        [docs[i] EXCEPT !.document_id = <<"SOP-001", "SOP-002", "SOP-003", "SOP-004">>[i]]]

IdleCall ==
    /\ pc = "idle"
    /\ fault_code = <<>> /\ equipment_type = <<>> /\ fault_description = <<>>
    /\ sop_docs = <<>>
    /\ procedure = <<>>

\* neither text function has been called
NoTextCall ==
    /\ content = <<>> /\ query = <<>> /\ max_length = 0
    /\ excerpt = NULL /\ results = NULL

FreshCall ==
    /\ doc_index = 1 /\ score = 0 /\ best_match = NULL /\ best_score = 0
    /\ lines = <<>> /\ line_index = 1 /\ current_section = "none"
    /\ safety_steps = <<>> /\ diagnostic_steps = <<>>
    /\ repair_steps = <<>> /\ verification_steps = <<>>


\* the rows of an interactive session
SessionRows ==
    << FaultRow("F1", 22, NULL, "Major", 81, "Aarhus"),
       FaultRow("F2", 2, <<3>>, "Cable Fault", 61, "Odense"),
       [FaultRow("F3", 23, NULL, "Minor", 40, "Aarhus") EXCEPT
            !.fault_code = Code1001],
       FaultRow("F4", 20, NULL, "Cable Fault", 90, "Odense") >>

RECURSIVE SubSeqs(_, _)
\* the subsequences of s of length at most n, order kept
SubSeqs(s, n) ==
    IF s = <<>> \/ n = 0 THEN {<<>>}
    ELSE SubSeqs(Tail(s), n)
         \cup {<<Head(s)>> \o rest : rest \in SubSeqs(Tail(s), n - 1)}

SessionStores == SubSeqs(SessionRows, MaxRecords) \ {<<>>}

\* Rows for the alerts panel, in no particular order: five CRITICAL ones,
\* two Major ones past their limit with equal scores, a resolved one with
\* the highest score of all and a recent Minor one.
AlertRows ==
    << FaultRow("F1", 20, NULL, "Major", 50, "Aarhus"),
       FaultRow("F2", 22, NULL, "Minor", 95, "Aarhus"),
       FaultRow("F3", 20, <<23>>, "Cable Fault", 99, "Odense"),
       FaultRow("F4", 23, NULL, "Major", 81, "Odense"),
       FaultRow("F5", 23, NULL, "Cable Fault", 90, "Aarhus"),
       FaultRow("F6", 21, NULL, "Major", 50, "Odense"),
       FaultRow("F7", 23, NULL, "Other", 82, "Aarhus"),
       FaultRow("F8", 23, NULL, "Minor", 41, "Aarhus"),
       FaultRow("F9", 23, NULL, "Cable Fault", 85, "Odense") >>

AlertStores == SubSeqs(AlertRows, Len(AlertRows)) \ {<<>>}

\* A long fault view: thirteen rows, the 2nd and the 5th resolved.
AssignedRows ==
    [i \in 1 .. 13 |->
        FaultRow(<<"F1", "F2", "F3", "F4", "F5", "F6", "F7", "F8", "F9", "F10",
                   "F11", "F12", "F13">>[i],
                 20, IF i \in {2, 5} THEN <<23>> ELSE NULL, "Major", 50, "Aarhus")]

\* views with two, ten and eleven unresolved rows
AssignedStores == {SubSeq(AssignedRows, 1, n) : n \in {3, 12, 13}}

\* a fault view without any timestamp column
UnusableRows ==
    << [fault_id |-> "F1", fault_category |-> "Major", fault_code |-> Code8123,
        equipment_type |-> <<"c", "B", "R", "-", "8">>, location |-> "Aarhus"] >>

\* the field script reads neither scores nor locations: three rows suffice
FieldStores == (SubSeqs(SubSeq(SessionRows, 1, 3), MaxRecords) \ {<<>>}) \cup {UnusableRows}

\* the procedure table of a field session: absent, or two documents
SessionSops ==
    {NoSops,
     [up |-> TRUE,
      rows |-> Numbered(
        << Doc("SOP", <<TitlePlain>>, <<Code1001>>, <<EntryCisco>>,
               <<TextWithoutCode>>, NULL),
           Doc("SOP", <<TitlePlain>>, <<Code8123>>, <<EntryArris>>,
               <<join(<<LineSafety, LineStep1, LineResolution, LineStep6>>, "\n")>>,
               NULL) >>)]}

Questions == {<<>>, <<"c", "a", "b", "l", "e">>}

\* what is typed in a long conversation
ChatQuestions == Questions \cup {<<"z", "z">>}

SessionTriage ==
    {[up |-> FALSE, rows |-> <<>>],
     [up |-> TRUE, rows |-> <<TriageRow("F3", <<"Major">>, <<85>>)>>]}

(***************************************************************************)
(* Specifications                                                          *)
(***************************************************************************)

NoSession == selected_fault = NULL /\ chat_history = <<>>

\* A process serves one of the two scripts; the manager script never reads
\* the procedure table and the field script never reads the triage view.
\* the filters of an interactive session: any date range and risk level
SessionFilters(df, t) ==
    {f \in FilterChoices(df, t) : f.location = "All" /\ f.category = "All"}

Init ==
    /\ now = SessionStart
    /\ store_up \in BOOLEAN
    /\ \/ /\ app = "manager"
          /\ store \in SessionStores
          /\ triage \in SessionTriage
          /\ sop_table = NoSops
       \/ /\ app = "field"
          /\ store \in FieldStores
          /\ triage = [up |-> FALSE, rows |-> <<>>]
          /\ sop_table \in SessionSops
    /\ cache = <<>>
    /\ view = NoView
    /\ NoSession
    /\ IdleCall /\ FreshCall
    /\ NoTextCall

Next ==
    \/ Tick
    \/ StoreAvailabilityChanges
    \/ /\ app = "manager"
       /\ \E f \in SessionFilters(cached_value(cache, store_up, store, triage, now), now) :
            ManagerRender(f)
    \/ FieldOpen
    \/ \E i \in 1 .. MaxRecords : GetRepairGuidance(i)
    \/ \E q \in Questions : AskAssistant(q)
    \/ MarkComplete
    \/ NeedHelp
    \/ ViewFullSOP
    \/ \E i \in 1 .. MaxDocs : ViewProcedure(i)

Spec == Init /\ [][Next]_vars

\* The enrichment alone: one fault row with any combination of its fields,
\* loaded 1 to 5 hours after the fault.
InitDerive ==
    /\ app = "manager"
    /\ now = SessionStart
    /\ store_up = TRUE
    /\ store \in {<<r>> : r \in AnyFaultRows}
    /\ triage \in AnyTriage
    /\ sop_table = NoSops
    /\ cache = <<>>
    /\ view = NoView
    /\ NoSession
    /\ IdleCall /\ FreshCall
    /\ NoTextCall

\* the first script run: every widget at its default value
NextDerive == ManagerRender(DefaultFilters(now))

SpecDerive == InitDerive /\ [][NextDerive]_vars

\* The sidebar alone: any loaded frame rendered under any combination of the
\* four filters.
InitFilter ==
    /\ app = "manager"
    /\ now = SessionStart
    /\ store_up = TRUE
    /\ store \in SessionStores
    /\ triage \in SessionTriage
    /\ sop_table = NoSops
    /\ cache = <<>>
    /\ view = NoView
    /\ NoSession
    /\ IdleCall /\ FreshCall
    /\ NoTextCall

NextFilter ==
    \E f \in FilterChoices(cached_value(cache, store_up, store, triage, now), now) :
        ManagerRender(f)

SpecFilter == InitFilter /\ [][NextFilter]_vars

\* The alerts panel alone: the first render of any selection of AlertRows.
InitAlerts ==
    /\ app = "manager"
    /\ now = SessionStart
    /\ store_up = TRUE
    /\ store \in AlertStores
    /\ triage = [up |-> FALSE, rows |-> <<>>]
    /\ sop_table = NoSops
    /\ cache = <<>>
    /\ view = NoView
    /\ NoSession
    /\ IdleCall /\ FreshCall
    /\ NoTextCall

NextAlerts == ManagerRender(DefaultFilters(now))

SpecAlerts == InitAlerts /\ [][NextAlerts]_vars

\* A field session over a long fault view.
InitAssigned ==
    /\ app = "field"
    /\ now = SessionStart
    /\ store_up = TRUE
    /\ store \in AssignedStores
    /\ triage = [up |-> FALSE, rows |-> <<>>]
    /\ sop_table \in SessionSops
    /\ cache = <<>>
    /\ view = NoView
    /\ NoSession
    /\ IdleCall /\ FreshCall
    /\ NoTextCall

NextAssigned ==
    \/ FieldOpen
    \/ \E i \in DOMAIN store : GetRepairGuidance(i)
    \/ \E q \in Questions : AskAssistant(q)
    \/ MarkComplete
    \/ NeedHelp
    \/ ViewFullSOP
    \/ \E i \in 1 .. MaxDocs : ViewProcedure(i)

SpecAssigned == InitAssigned /\ [][NextAssigned]_vars

\* A long conversation with the assistant over one fault table.
InitChat ==
    /\ app = "field"
    /\ now = SessionStart
    /\ store_up = TRUE
    /\ store = SubSeq(SessionRows, 1, 2)
    /\ triage = [up |-> FALSE, rows |-> <<>>]
    /\ sop_table = NoSops
    /\ cache = <<>>
    /\ view = NoView
    /\ NoSession
    /\ IdleCall /\ FreshCall
    /\ NoTextCall

NextChat ==
    \/ FieldOpen
    \/ \E q \in ChatQuestions : AskAgain(q)

SpecChat == InitChat /\ [][NextChat]_vars

\* One call of generate_repair_procedure on any fault code and any list of
\* candidate documents.
InitProcedure ==
    /\ app = "field"
    /\ now = SessionStart
    /\ store_up = TRUE
    /\ store = <<>>
    /\ triage = [up |-> FALSE, rows |-> <<>>]
    /\ sop_table = NoSops
    /\ cache = <<>>
    /\ view = NoView
    /\ NoSession
    /\ pc = "match"
    /\ equipment_type = EquipmentCisco
    /\ fault_description = DescriptionCut
    /\ \/ /\ fault_code \in {Code8123, Code123}
          /\ sop_docs \in {Numbered(docs) : docs \in SeqsUpTo(MatchDocs, MaxDocs)}
       \/ /\ fault_code = Code8123
          /\ sop_docs \in {Numbered(<<doc>>) : doc \in ExtractDocs}
    /\ procedure = <<>>
    /\ FreshCall
    /\ NoTextCall

NextProcedure ==
    \/ ScoreDoc
    \/ ReturnGeneric
    \/ SplitContent
    \/ ScanLine
    \/ ReturnProcedure

SpecProcedure == InitProcedure /\ [][NextProcedure]_vars

\* n copies of one character
Repeat(c, n) == [i \in 1 .. n |-> c]

WordKey == <<"K", "e", "y">>
WordKeyTwice == <<"K", "e", "y", "-", "k", "e", "y">>

\* contents with the word 0, 99, 100 or 101 characters from the start and
\* followed by enough text to end before, at or after the window of the
\* default max_length
ExcerptContents ==
    {Repeat("x", before) \o word \o Repeat("y", after) :
        before \in {0, 99, 100, 101},
        word \in {<<>>, WordKey, WordKeyTwice},
        after \in {0, 397, 398}}

ExcerptQueries == {<<>>, <<"k", "e", "y">>, <<"K", "E", "Y">>, <<"z", "z">>}

ExcerptLimits == {50, 103, DefaultMaxLength}

\* One call of extract_relevant_excerpt on any content, query and max_length.
InitExcerpt ==
    /\ app = "field"
    /\ now = SessionStart
    /\ store_up = TRUE
    /\ store = <<>>
    /\ triage = [up |-> FALSE, rows |-> <<>>]
    /\ sop_table = NoSops
    /\ cache = <<>>
    /\ view = NoView
    /\ NoSession
    /\ pc = "excerpt"
    /\ fault_code = <<>> /\ equipment_type = <<>> /\ fault_description = <<>>
    /\ sop_docs = <<>>
    /\ procedure = <<>>
    /\ FreshCall
    /\ content \in ExcerptContents
    /\ query \in ExcerptQueries
    /\ max_length \in ExcerptLimits
    /\ excerpt = NULL
    /\ results = NULL

NextExcerpt == ExtractRelevantExcerpt

\* queries that occur in a title, in an excerpt, in neither, and the empty one
SearchQueries ==
    {<<>>, <<"c", "a", "b", "l", "e">>, <<"C", "A", "B", "L", "E">>,
     <<"a", "l", "a", "r", "m", "s">>, <<"s", "a", "f", "e", "t", "y">>,
     <<"z", "z">>, Code8123, <<"s", "e", "r", "v", "i", "c", "e">>}

\* One call of search_sop_documents_cortex on any query, with or without a
\* fault code and an equipment type, the session being available or not.
InitSearch ==
    /\ app = "field"
    /\ now = SessionStart
    /\ store_up \in BOOLEAN
    /\ store = <<>>
    /\ triage = [up |-> FALSE, rows |-> <<>>]
    /\ sop_table = NoSops
    /\ cache = <<>>
    /\ view = NoView
    /\ NoSession
    /\ pc = "search"
    /\ fault_code \in {<<>>, Code8123}
    /\ equipment_type \in {<<>>, EquipmentCisco}
    /\ fault_description = <<>>
    /\ sop_docs = <<>>
    /\ procedure = <<>>
    /\ FreshCall
    /\ content = <<>>
    /\ query \in SearchQueries
    /\ max_length = 0
    /\ excerpt = NULL
    /\ results = NULL

NextSearch == SearchSopDocuments

SpecSearch == InitSearch /\ [][NextSearch]_vars

SpecExcerpt == InitExcerpt /\ [][NextExcerpt]_vars

(***************************************************************************)
(* Properties of the enrichment                                            *)
(***************************************************************************)

\* the rows of the memoized frame, if any
LoadedRows == IF cache = <<>> THEN {} ELSE Range(cache[1])

\* C1: the risk level of every loaded row is CRITICAL if its score s > 0.8,
\* else HIGH if s > 0.6, else MEDIUM if s > 0.4, else LOW; the cutoffs are
\* strict (0.8 is HIGH, 0.6 is MEDIUM, 0.4 is LOW).
C1_RiskLevelCutoffs ==
    \A r \in LoadedRows :
        LET s == r.calculated_priority_score
        IN  /\ (r.risk_level = "CRITICAL") <=> (s > 80)
            /\ (r.risk_level = "HIGH") <=> (s > 60 /\ s <= 80)
            /\ (r.risk_level = "MEDIUM") <=> (s > 40 /\ s <= 60)
            /\ (r.risk_level = "LOW") <=> (s <= 40)

C1_Witness ==
    \E r \in LoadedRows : r.calculated_priority_score = 80 /\ r.risk_level = "HIGH"

\* C2: sla_breach_risk is false for every resolved row, whatever its
\* category and elapsed hours.
C2_ResolvedNeverAtRisk ==
    \A r \in LoadedRows : r.is_resolved => ~r.sla_breach_risk

\* the elapsed-time limit of a category, in hours; none for other categories
HasSlaLimit(cat) == cat \in {"Cable Fault", "Major", "Minor"}
SlaLimit(cat) == CASE cat = "Cable Fault" -> 4 [] cat = "Major" -> 2 [] cat = "Minor" -> 1

\* C3: an unresolved row is flagged exactly when its elapsed hours strictly
\* exceed the limit of its category (Cable Fault 4, Major 2, Minor 1); at the
\* limit it is not flagged, and a row of another category never is.
C3_UnresolvedFlaggedPastLimit ==
    \A r \in LoadedRows :
        ~r.is_resolved =>
            (r.sla_breach_risk <=>
                (HasSlaLimit(r.fault_category)
                    /\ r.hours_since_fault > SlaLimit(r.fault_category)))

C3_Witness ==
    \E r \in LoadedRows :
        /\ ~r.is_resolved /\ r.fault_category = "Cable Fault"
        /\ r.hours_since_fault = 4 /\ ~r.sla_breach_risk

\* C4: at every render each shown row carries the hours, risk level and SLA
\* flag derived from its source fields and the time of that render.
C4_ShownValuesAreCurrent ==
    view.kind = "dashboard" =>
        \A i \in DOMAIN view.rows :
            LET r == view.rows[i]
                hours == view.rendered_at - r.fault_timestamp
            IN  /\ r.hours_since_fault = hours
                /\ r.risk_level = risk_level(r.calculated_priority_score)
                /\ r.sla_breach_risk = sla_breach_risk(r.fault_category, hours)

\* the frame a memoized load holds
LoadedFrame(c) == IF app = "manager" THEN c[1] ELSE c[1].df

ResolutionColumns(frame) ==
    [i \in DOMAIN frame |->
        <<frame[i].fault_id, frame[i].resolution_timestamp, frame[i].is_resolved>>]

\* C5: no interaction (a filter change, Get Repair Guidance, Mark Complete,
\* Need Help, View Full SOP, Ask Assistant) changes the resolution timestamp
\* or the is_resolved flag of a loaded record.
C5_ResolutionNeverChanges ==
    [][cache # <<>> =>
        /\ cache' # <<>>
        /\ ResolutionColumns(LoadedFrame(cache')) = ResolutionColumns(LoadedFrame(cache))]_vars

C5_Witness ==
    /\ app = "field"
    /\ view.kind = "field"
    /\ view.feedback = "complete"
    /\ selected_fault # NULL
    /\ \E i \in DOMAIN cache[1].df :
            /\ cache[1].df[i].fault_id = selected_fault[1].fault_id
            /\ cache[1].df[i].resolution_timestamp = NULL
            /\ ~cache[1].df[i].is_resolved

(***************************************************************************)
(* Properties of the procedure matcher                                     *)
(***************************************************************************)

\* the document the loop body has just scored
ScoredDoc == sop_docs[doc_index - 1]

Present(field) == field # NULL /\ field[1] # <<>>

ScoreOf(member, equipment, text) ==
    (IF member THEN 8 ELSE 0) + (IF equipment THEN 6 ELSE 0) + (IF text THEN 4 ELSE 0)

IsMember(doc) == fault_code \in Range(doc.fault_codes)

EquipmentListed(doc) ==
    \E e \in Range(doc.equipment_types) : contains(lower(e), lower(equipment_type))

ContentOf(doc) == IF doc.content = NULL THEN <<>> ELSE doc.content[1]

\* the text the third component searches: the content, the title when there
\* is no content, the description when there is neither
SearchedText(doc) ==
    IF Present(doc.content) THEN doc.content[1]
    ELSE IF Present(doc.title) THEN doc.title[1]
    ELSE IF Present(doc.description) THEN doc.description[1]
    ELSE <<>>

ExpectedScore(doc) ==
    ScoreOf(IsMember(doc), EquipmentListed(doc), contains(SearchedText(doc), fault_code))

MaxExpected == CHOOSE m \in {ExpectedScore(d) : d \in Range(sop_docs)} :
                    \A d \in Range(sop_docs) : ExpectedScore(d) <= m

FirstAtMax == CHOOSE i \in DOMAIN sop_docs :
                /\ ExpectedScore(sop_docs[i]) = MaxExpected
                /\ \A j \in 1 .. (i - 1) : ExpectedScore(sop_docs[j]) < MaxExpected

IsGeneric(p) == "document_id" \in DOMAIN p /\ p.document_id = "GENERIC"
IsSpecific(p) == "source_document" \in DOMAIN p

\* C7: when some candidate scores above 0, the procedure is built from the
\* first candidate, in input order, whose score is the maximum, and its
\* confidence is that score.
C7_FirstBestCandidate ==
    (pc = "done" /\ \E d \in Range(sop_docs) : ExpectedScore(d) > 0) =>
        /\ IsSpecific(procedure[1])
        /\ procedure[1].confidence = MaxExpected
        /\ procedure[1].source_document = sop_docs[FirstAtMax].document_id

C7_Witness ==
    /\ pc = "done"
    /\ Len(sop_docs) = 2
    /\ ExpectedScore(sop_docs[1]) = 8
    /\ ExpectedScore(sop_docs[2]) = 8
    /\ procedure[1].source_document = "SOP-001"
    /\ procedure[1].confidence = 8

\* C8: the generic procedure is returned exactly when no candidate scores
\* above 0 (an empty list included); otherwise a procedure of one of the
\* candidates is.
C8_GenericIffNoMatch ==
    pc = "done" =>
        /\ IsGeneric(procedure[1]) <=> (\A d \in Range(sop_docs) : ExpectedScore(d) <= 0)
        /\ ~IsGeneric(procedure[1]) =>
                /\ IsSpecific(procedure[1])
                /\ \E d \in Range(sop_docs) :
                        d.document_id = procedure[1].source_document

C8_Witness ==
    /\ pc = "done"
    /\ sop_docs = <<>>
    /\ IsGeneric(procedure[1])

(***************************************************************************)
(* Properties of the step extractor                                        *)
(***************************************************************************)

\* the section headers in their order of precedence
SectionWords ==
    << [section |-> "safety", words |-> {WordSAFETY}],
       [section |-> "diagnostic", words |-> {WordDIAGNOSTIC}],
       [section |-> "repair", words |-> {WordREPAIR, WordRESOLUTION}],
       [section |-> "verification", words |-> {WordVERIFICATION}] >>

Mentions(line, k) == \E w \in SectionWords[k].words : contains(upper(line), w)

IsHeader(line) == \E k \in DOMAIN SectionWords : Mentions(line, k)

HeaderSection(line) ==
    SectionWords[CHOOSE k \in DOMAIN SectionWords :
        Mentions(line, k) /\ \A j \in 1 .. (k - 1) : ~Mentions(line, j)].section

\* C9: a non-blank line that mentions a section word switches the active
\* section to the first section, in the order safety, diagnostic, repair,
\* verification, one of whose words it mentions; any other line leaves the
\* active section as it is.
C9_HeaderSwitchesSection ==
    [][(pc = "extract" /\ line_index' = line_index + 1) =>
        LET line == strip(lines[line_index])
        IN  current_section' =
                IF line # <<>> /\ IsHeader(line) THEN HeaderSection(line)
                ELSE current_section]_vars

C9_Witness ==
    /\ pc = "extract"
    /\ line_index = 4
    /\ lines = <<LineVerification, LineVerificationSafety, LineNote>>
    /\ current_section = "safety"

CapturedSteps == safety_steps \o diagnostic_steps \o repair_steps \o verification_steps

\* a numbered-list marker "1." to "9." or the bullet marker
HasListMarker(line) ==
    \/ \E d \in {"1", "2", "3", "4", "5", "6", "7", "8", "9"} : startswith(line, <<d, ".">>)
    \/ startswith(line, <<"-">>)

\* the scanned lines that follow a header, are no header and carry a marker
MarkedLines ==
    {i \in 1 .. (line_index - 1) :
        /\ ~IsHeader(strip(lines[i]))
        /\ HasListMarker(strip(lines[i]))
        /\ \E j \in 1 .. (i - 1) : IsHeader(strip(lines[j]))}

\* C10: with a section active, a line that is no header is captured if and
\* only if it starts with "1." to "9." or with "-".
C10_EveryMarkedLineCaptured ==
    pc \in {"extract", "done"} => Len(CapturedSteps) = Cardinality(MarkedLines)

\* the lines scanned so far hold no header
NoHeaderYet == \A j \in 1 .. (line_index - 1) : ~IsHeader(strip(lines[j]))

\* the four step lists of a returned procedure
ReturnedSteps(p) ==
    <<p.safety_steps, p.diagnostic_steps, p.repair_steps, p.verification_steps>>

\* C11: as long as no scanned line is a header nothing is captured, whatever
\* the lines start with; a content without any header is returned with four
\* empty step lists.
C11_NothingBeforeFirstHeader ==
    /\ (pc \in {"extract", "done"} /\ NoHeaderYet) => CapturedSteps = <<>>
    /\ (pc = "done" /\ IsSpecific(procedure[1]) /\ NoHeaderYet) =>
            ReturnedSteps(procedure[1]) = <<<<>>, <<>>, <<>>, <<>>>>

C11_Witness ==
    /\ pc = "done"
    /\ lines = <<LineStep1, LineBullet, LineNote>>
    /\ IsSpecific(procedure[1])
    /\ ReturnedSteps(procedure[1]) = <<<<>>, <<>>, <<>>, <<>>>>

\* the section of the most recent header among the lines before the i-th
LatestHeader(i) ==
    LET headers == {j \in 1 .. (i - 1) : IsHeader(strip(lines[j]))}
    IN  IF headers = {} THEN "none"
        ELSE HeaderSection(strip(lines[CHOOSE j \in headers : \A k \in headers : k <= j]))

\* the four lists by section name
StepLists ==
    [safety |-> safety_steps, diagnostic |-> diagnostic_steps,
     repair |-> repair_steps, verification |-> verification_steps]

\* One step of the scan either leaves the four lists alone or appends `step`
\* to the list of the most recent header, and to no other.
PlacesStep(step) ==
    \/ StepLists' = StepLists
    \/ /\ LatestHeader(line_index) # "none"
       /\ StepLists' = [StepLists EXCEPT ![LatestHeader(line_index)] = Append(@, step)]

\* C12 as stated: the captured step is the line itself, character for
\* character.
C12_StepIsLineVerbatim ==
    [][(pc = "extract" /\ line_index' = line_index + 1) =>
            PlacesStep(lines[line_index])]_vars

\* C12: the four lists start empty; each captured step is the line without
\* its leading and trailing whitespace, appended (so in input order) to the
\* list of the most recent header before it, and to that list only.
C12_StepGoesToLatestSection ==
    [][/\ (pc = "match" /\ pc' = "extract") =>
            StepLists' = [s \in DOMAIN StepLists |-> <<>>]
       /\ (pc = "extract" /\ line_index' = line_index + 1) =>
            PlacesStep(strip(lines[line_index]))
       /\ (pc = "extract" /\ pc' = "done") =>
            /\ StepLists' = StepLists
            /\ ReturnedSteps(procedure'[1]) =
                <<safety_steps, diagnostic_steps, repair_steps, verification_steps>>]_vars

C12_Witness ==
    /\ pc = "done"
    /\ lines = <<LineSafety, LineBullet, LineStep1>>
    /\ ReturnedSteps(procedure[1]) = <<<<strip(LineBullet), LineStep1>>, <<>>, <<>>, <<>>>>
    /\ strip(LineBullet) # LineBullet

(***************************************************************************)
(* Properties of the repair-procedure panel                                *)
(***************************************************************************)

\* the panel shows a procedure extracted from a document, with no step
NoStructuredSteps ==
    /\ app = "field"
    /\ view.kind = "field"
    /\ view.procedure # <<>>
    /\ IsSpecific(view.procedure[1])
    /\ ReturnedSteps(view.procedure[1]) = <<<<>>, <<>>, <<>>, <<>>>>

\* C13: whenever the procedure on the page was extracted with four empty
\* lists, the page shows the full content of the document, whatever button
\* was or was not pressed.
C13_FullContentShownWithoutSteps ==
    NoStructuredSteps => view.panel[1].full_content = <<view.procedure[1].full_content>>

(***************************************************************************)
(* Properties of the excerpt extractor                                     *)
(***************************************************************************)

\* the call has returned
Excerpted == pc = "done" /\ excerpt # NULL

\* the query occurs in the content at 0-based position i, whatever the case
OccursAt(i) ==
    /\ i \in 0 .. (Len(content) - Len(query))
    /\ lower(SubSeq(content, i + 1, i + Len(query))) = lower(query)

Found == \E i \in 0 .. Len(content) : OccursAt(i)

\* p: the position of the first occurrence
FirstPosition == CHOOSE i \in 0 .. Len(content) :
                    OccursAt(i) /\ \A j \in 0 .. (i - 1) : ~OccursAt(j)

WindowStart == IF FirstPosition - 100 > 0 THEN FirstPosition - 100 ELSE 0

WindowEnd ==
    IF FirstPosition + max_length - 100 < Len(content)
    THEN FirstPosition + max_length - 100 ELSE Len(content)

\* content[WindowStart : WindowEnd]; an end below 0 counts from the end of
\* the content
Window ==
    LET last == IF WindowEnd >= 0 THEN WindowEnd
                ELSE IF Len(content) + WindowEnd > 0 THEN Len(content) + WindowEnd ELSE 0
    IN  IF last <= WindowStart THEN <<>> ELSE SubSeq(content, WindowStart + 1, last)

Marked(before, text, after) ==
    (IF before THEN <<".", ".", ".">> ELSE <<>>) \o text
        \o (IF after THEN <<".", ".", ".">> ELSE <<>>)

\* C14 as stated: the ellipsis is added on the side where the bound of the
\* window was replaced by the bound of the content (0, len(content)).
C14_EllipsisWhereClamped ==
    (Excerpted /\ Found) =>
        excerpt[1] = Marked(FirstPosition - 100 < 0, Window,
                            FirstPosition + max_length - 100 > Len(content))

\* C14: the excerpt of a found query is the window, with an ellipsis in
\* front if the window starts after the beginning of the content and one
\* behind if it ends before the end of the content.
C14_WindowAroundQuery ==
    (Excerpted /\ Found) =>
        excerpt[1] = Marked(WindowStart > 0, Window, WindowEnd < Len(content))

C14_Witness ==
    /\ Excerpted /\ Found
    /\ FirstPosition = 101
    /\ max_length = 500
    /\ Len(content) = 101 + 3 + 398
    /\ excerpt[1] = <<".", ".", ".">> \o SubSeq(content, 2, 501) \o <<".", ".", ".">>

\* C15: a found query whose window covers the whole content (p <= 100 and
\* len(content) <= p + max_length - 100) returns the content unchanged.
C15_WholeContentUnchanged ==
    (/\ Excerpted /\ Found
     /\ FirstPosition <= 100
     /\ Len(content) <= FirstPosition + max_length - 100) => excerpt[1] = content

C15_Witness ==
    /\ Excerpted /\ Found
    /\ FirstPosition = 100
    /\ max_length = 500
    /\ Len(content) = 500
    /\ excerpt[1] = content

\* C16: when the query does not occur, the excerpt is the first max_length
\* characters, followed by an ellipsis exactly when the content is longer.
C16_BeginningWhenNotFound ==
    (Excerpted /\ ~Found) =>
        excerpt[1] = IF Len(content) > max_length
                     THEN SubSeq(content, 1, max_length) \o <<".", ".", ".">>
                     ELSE content

C16_Witness ==
    /\ Excerpted /\ ~Found
    /\ max_length = 500
    /\ Len(content) = 502
    /\ excerpt[1] = SubSeq(content, 1, 500) \o <<".", ".", ".">>

(***************************************************************************)
(* Properties of the document search                                       *)
(***************************************************************************)

\* the call has returned
Searched == pc = "done" /\ results # NULL

ResultFields == {"document_id", "title", "category", "relevance_score", "content_excerpt"}

\* C17: the search returns at most 3 results, each with the five fields and
\* a relevance between 0 and 1 (0 and 100 hundredths), in non-increasing
\* order of relevance.
C17_AtMostThreeRanked ==
    Searched =>
        /\ Len(results[1]) <= 3
        /\ \A i \in DOMAIN results[1] :
            /\ DOMAIN results[1][i] = ResultFields
            /\ results[1][i].relevance_score \in 0 .. 100
        /\ \A i, j \in DOMAIN results[1] :
            i < j => results[1][i].relevance_score >= results[1][j].relevance_score

C17_Witness ==
    /\ Searched
    /\ store_up
    /\ fault_code = Code8123 /\ equipment_type = EquipmentCisco
    /\ Len(results[1]) = 2
    /\ results[1][1].relevance_score = 95 /\ results[1][2].relevance_score = 75

\* C18: when the session cannot be obtained the search returns exactly one
\* result, the placeholder SOP-FALLBACK.
C18_FallbackOnFailure ==
    (Searched /\ ~store_up) =>
        /\ Len(results[1]) = 1
        /\ results[1][1].document_id = "SOP-FALLBACK"

C18_Witness ==
    /\ Searched /\ ~store_up
    /\ query = <<"c", "a", "b", "l", "e">>
    /\ results[1] = fallback_results(query)

(***************************************************************************)
(* Properties of the degraded paths                                        *)
(***************************************************************************)

\* the session cannot be obtained, or the fault view cannot be used
FaultDataUnavailable ==
    \/ ~store_up
    \/ store # <<>> /\ "fault_timestamp" \notin DOMAIN store[1]

\* the columns of a fault record every page reads
FaultRecordColumns ==
    {"fault_id", "fault_timestamp", "fault_category", "fault_code",
     "equipment_type", "location", "resolution_timestamp", "is_resolved",
     "hours_since_fault"}

\* the page is the notice and nothing else
OnlyTheNotice(page) ==
    /\ page.kind = "error"
    /\ IF app = "manager"
       THEN page.rows = <<>> /\ page.kpi = create_kpi_metrics(<<>>)
       ELSE /\ page.offered = <<>> /\ page.procedure = <<>> /\ page.panel = <<>>
            /\ page.chat = <<>> /\ page.documents = <<>>

\* a script run that calls load_fault_data while the data is unavailable
FailedLoad == cache = <<>> /\ cache' # <<>> /\ FaultDataUnavailable

\* C19: a load that finds the store unreachable or the fault view unusable
\* returns an empty frame with the fault-record columns (and no document in
\* the field app), and the run shows the notice and nothing else.
C19_EmptyShapedFrameAndNotice ==
    [][FailedLoad =>
        /\ LoadedFrame(cache') = <<>>
        /\ FaultRecordColumns \subseteq cache'[2]
        /\ (app = "field" => cache'[1].sop_docs = <<>>)
        /\ OnlyTheNotice(view')]_vars

\* the part of C19 about an unreachable store
UnreachableStoreDegrades ==
    [][(FailedLoad /\ ~store_up) =>
        /\ LoadedFrame(cache') = <<>>
        /\ FaultRecordColumns \subseteq cache'[2]
        /\ (app = "field" => cache'[1].sop_docs = <<>>)
        /\ OnlyTheNotice(view')]_vars

\* every row of the fault view is in the frame, with all its columns
CompleteFaultTable(frame) ==
    /\ DOMAIN frame = DOMAIN store
    /\ \A i \in DOMAIN store : \A f \in DOMAIN store[i] : frame[i][f] = store[i][f]

\* C20: without the procedure table a load of a usable fault view returns
\* all its rows and an empty document list and the page is rendered; every
\* procedure shown from then on is the generic one.
C20_NoDocumentsMeansGeneric ==
    [][(app = "field" /\ ~sop_table.up /\ cache' # <<>>) =>
        /\ (cache = <<>> /\ ~FaultDataUnavailable) =>
                /\ CompleteFaultTable(cache'[1].df)
                /\ view'.kind = "field"
        /\ cache'[1].sop_docs = <<>>
        /\ view'.procedure # <<>> => IsGeneric(view'.procedure[1])]_vars

C20_Witness ==
    /\ app = "field" /\ ~sop_table.up
    /\ cache # <<>>
    /\ Len(cache[1].df) = 2 /\ cache[1].sop_docs = <<>>
    /\ view.kind = "field"
    /\ view.procedure # <<>> /\ IsGeneric(view.procedure[1])

(***************************************************************************)
(* Properties of the memoized load                                         *)
(***************************************************************************)

\* C21: once load_fault_data has returned, the entry never changes, whatever
\* happens to the store, and every page is rendered from it: the notice
\* alone if the entry is the empty frame of a failed load, the data otherwise.
C21_LoadIsMemoized ==
    [][cache # <<>> =>
        /\ cache' = cache
        /\ (view'.kind = "error") <=> (LoadedFrame(cache) = <<>>)
        /\ view'.kind = "dashboard" =>
                \A i \in DOMAIN view'.rows : \E j \in DOMAIN cache[1] :
                    view'.rows[i] = cache[1][j]]_vars

\* the empty frame of a failed load is still served, an hour later, by a
\* render that finds the store reachable
C21_Witness ==
    /\ app = "manager"
    /\ cache # <<>> /\ cache[1] = <<>>
    /\ store_up
    /\ view.kind = "error" /\ view.rendered_at = now /\ now > SessionStart

(***************************************************************************)
(* Properties of the manager's filters and panels                          *)
(***************************************************************************)

\* the record meets every selected criterion
MeetsAll(r, f) ==
    /\ Len(f.date_range) = 2 =>
            /\ f.date_range[1] <= r.fault_timestamp \div 24
            /\ r.fault_timestamp \div 24 <= f.date_range[2]
    /\ f.location # "All" => r.location = f.location
    /\ f.category # "All" => r.fault_category = f.category
    /\ f.risk # "All" => r.risk_level = f.risk

\* the four criteria taken one after the other, the last one first
SelectedInReverse(df, f) ==
    LET OfRisk(r) == f.risk # "All" => r.risk_level = f.risk
        OfCategory(r) == f.category # "All" => r.fault_category = f.category
        AtLocation(r) == f.location # "All" => r.location = f.location
        InRange(r) == Len(f.date_range) = 2 =>
                        /\ f.date_range[1] <= r.fault_timestamp \div 24
                        /\ r.fault_timestamp \div 24 <= f.date_range[2]
    IN  SelectSeq(SelectSeq(SelectSeq(SelectSeq(df, OfRisk), OfCategory), AtLocation),
                  InRange)

\* C22: the displayed records are the loaded records that meet all selected
\* criteria together, in load order and unaltered (a criterion at 'All', or
\* a date range not yet chosen in full, restricts nothing); they are the same
\* with the criteria applied in the opposite order; the loaded frame is not
\* changed by a render.
C22_DisplayedAreLoadedMatching ==
    [][view'.kind = "dashboard" =>
        LET Chosen(r) == MeetsAll(r, view'.filters)
        IN  /\ view'.rows = SelectSeq(cache'[1], Chosen)
            /\ view'.rows = SelectedInReverse(cache'[1], view'.filters)
            /\ cache # <<>> => cache' = cache]_vars

C22_Witness ==
    /\ view.kind = "dashboard"
    /\ view.filters.date_range = <<0, 0>>
    /\ view.filters.location = "Aarhus"
    /\ view.filters.risk = "CRITICAL"
    /\ Len(cache[1]) = 2
    /\ Len(view.rows) = 1

\* the displayed records that call for an alert
Qualifying ==
    {i \in DOMAIN view.rows :
        /\ ~view.rows[i].is_resolved
        /\ (view.rows[i].risk_level = "CRITICAL" \/ view.rows[i].sla_breach_risk)}

\* C23: the alerts panel lists qualifying records only, each once, the 5 of
\* highest calculated priority score (all of them if there are fewer), in
\* non-increasing order of score; a box has the critical style exactly when
\* its record's risk level is CRITICAL.
C23_TopFiveAlerts ==
    view.kind = "dashboard" =>
        LET shown == view.alerts
            Shown(i) == \E k \in DOMAIN shown : shown[k].fault = view.rows[i]
        IN  /\ Len(shown) <= 5
            /\ Len(shown) = (IF Cardinality(Qualifying) < 5
                             THEN Cardinality(Qualifying) ELSE 5)
            /\ \A k \in DOMAIN shown :
                /\ \E i \in Qualifying : shown[k].fault = view.rows[i]
                /\ (shown[k].alert_type = "critical-alert")
                        <=> (shown[k].fault.risk_level = "CRITICAL")
                /\ shown[k].alert_type \in {"critical-alert", "high-priority"}
            /\ \A k, m \in DOMAIN shown :
                /\ k < m => shown[k].fault.calculated_priority_score
                                >= shown[m].fault.calculated_priority_score
                /\ k # m => shown[k].fault.fault_id # shown[m].fault.fault_id
            /\ \A i \in Qualifying : \A k \in DOMAIN shown :
                ~Shown(i) => view.rows[i].calculated_priority_score
                                <= shown[k].fault.calculated_priority_score

\* seven records qualify and five are shown, a flagged Major one last
C23_Witness ==
    /\ view.kind = "dashboard"
    /\ Cardinality(Qualifying) >= 6
    /\ Len(view.rows) > Cardinality(Qualifying)
    /\ Len(view.alerts) = 5
    /\ view.alerts[1].alert_type = "critical-alert"
    /\ view.alerts[5].alert_type = "high-priority"

\* C24: the chat history only grows by appending; an Ask with a non-empty
\* question appends the question as a user message and then one assistant
\* message, an Ask with an empty question leaves the history as it is; the
\* history has even length with roles user, assistant, user, ...; the page
\* shows its last 10 messages, oldest first.
C24_ChatOnlyAppends ==
    [][LET before == Len(chat_history)
           after == Len(chat_history')
           last == IF after < 10 THEN after ELSE 10
       IN  /\ after >= before
           /\ SubSeq(chat_history', 1, before) = chat_history
           /\ \A q \in ChatQuestions : display_ai_chat_interface(q) =>
                IF q = <<>>
                THEN chat_history' = chat_history
                ELSE /\ after = before + 2
                     /\ chat_history'[before + 1].role = "user"
                     /\ chat_history'[before + 1].content = q
                     /\ chat_history'[before + 2].role = "assistant"
           /\ after % 2 = 0
           /\ \A i \in 1 .. after :
                chat_history'[i].role = (IF i % 2 = 1 THEN "user" ELSE "assistant")
           /\ view'.kind = "field" =>
                /\ Len(view'.chat) = last
                /\ \A k \in 1 .. last :
                        view'.chat[k] = chat_history'[after - last + k]]_vars

\* six questions asked, the first two of them different: the page shows the
\* messages from the second question on
C24_Witness ==
    /\ view.kind = "field"
    /\ Len(chat_history) = 12
    /\ chat_history[1].content # chat_history[3].content
    /\ chat_history[4].content.found
    /\ Len(view.chat) = 10
    /\ view.chat[1] = chat_history[3]
    /\ view.chat[10] = chat_history[12]

\* the most recent header among the lines before the i-th (0: none)
LatestHeaderLine(i) ==
    LET headers == {j \in 1 .. (i - 1) : IsHeader(strip(lines[j]))}
    IN  IF headers = {} THEN 0 ELSE CHOOSE j \in headers : \A k \in headers : k <= j

\* C25: a line that mentions a section word is never captured as a step,
\* list marker or not: it leaves the four lists as they are and makes its
\* section the active one, so that the steps after a numbered line that
\* mentions a section word go to the list of that word's section.
C25_HeaderIsNeverAStep ==
    [][(pc = "extract" /\ line_index' = line_index + 1) =>
        LET line == strip(lines[line_index])
            header == LatestHeaderLine(line_index)
        IN  /\ IsHeader(line) =>
                /\ StepLists' = StepLists
                /\ current_section' = HeaderSection(line)
            /\ \A s \in DOMAIN StepLists : \A k \in DOMAIN StepLists'[s] :
                    ~IsHeader(StepLists'[s][k])
            /\ (StepLists' # StepLists /\ header > 0
                    /\ HasListMarker(strip(lines[header]))) =>
                StepLists' = [StepLists EXCEPT
                    ![HeaderSection(strip(lines[header]))] = Append(@, line)]]_vars

\* after "3. repair" under the safety header, "1. a" is a repair step and
\* no list holds "3. repair"
C25_Witness ==
    /\ pc = "done"
    /\ lines = <<LineSafety, LineStepRepair, LineStep1>>
    /\ is_step_line(LineStepRepair)
    /\ ReturnedSteps(procedure[1]) = <<<<>>, <<>>, <<LineStep1>>, <<>>>>

\* the excerpt without the ellipses the function added
ExcerptBody ==
    LET front == IF WindowStart > 0 THEN 3 ELSE 0
        back == IF WindowEnd < Len(content) THEN 3 ELSE 0
    IN  SubSeq(excerpt[1], front + 1, Len(excerpt[1]) - back)

\* the excerpt's body holds the first occurrence of the query, where the
\* window puts it, and is at most max_length long
HoldsQueryWithinLimit ==
    LET offset == FirstPosition - WindowStart
    IN  /\ Len(ExcerptBody) >= offset + Len(query)
        /\ SubSeq(ExcerptBody, offset + 1, offset + Len(query))
                = SubSeq(content, FirstPosition + 1, FirstPosition + Len(query))
        /\ Len(ExcerptBody) <= max_length

\* C26: whatever the content, the non-empty query that occurs in it and
\* max_length, the excerpt holds the first occurrence of the query in full
\* and is, without the added ellipses, at most max_length long.
C26_ExcerptHoldsQuery ==
    (Excerpted /\ Found /\ query # <<>>) => HoldsQueryWithinLimit

\* the same for a max_length that leaves room for the 100 characters before
\* the query and the query itself
ExcerptHoldsQueryGivenRoom ==
    (Excerpted /\ Found /\ query # <<>> /\ max_length >= 100 + Len(query)) =>
        HoldsQueryWithinLimit

\* C27: the search never returns an empty list: with the session available
\* both simulated results are returned, each holding the searched text in
\* its excerpt, and without the session the placeholder is returned; so the
\* assistant's answer to the query always cites a source, the first result.
C27_SearchNeverEmpty ==
    Searched =>
        LET enhanced == enhanced_query(query, fault_code, equipment_type)
            answer == assistant_response(store_up, query)
        IN  /\ results[1] # <<>>
            /\ store_up =>
                /\ results[1] = stub_results(enhanced)
                /\ \A i \in DOMAIN results[1] :
                    contains(lower(results[1][i].content_excerpt), lower(enhanced))
            /\ ~store_up => results[1] = fallback_results(query)
            /\ answer.found
            /\ answer.source \in {stub_results(query)[1], fallback_results(query)[1]}

\* a query that occurs in neither title, searched with a fault code
C27_Witness ==
    /\ Searched /\ store_up
    /\ query = <<"z", "z">> /\ fault_code = Code8123
    /\ ~contains(lower(StubTitle1), lower(query))
    /\ ~contains(lower(StubTitle2), lower(query))
    /\ Len(results[1]) = 2

\* every assistant message of the conversation cites a source
EveryAnswerCitesSource ==
    \A i \in DOMAIN chat_history :
        chat_history[i].role = "assistant" =>
            /\ chat_history[i].content.found
            /\ chat_history[i].content.source.document_id
                    \in {"SOP-001", "SOP-FALLBACK"}

\* the positions of the unresolved rows of the loaded frame
Unresolved(df) == {i \in DOMAIN df : ~df[i].is_resolved}

\* the position of the k-th unresolved row
KthUnresolved(df, k) ==
    CHOOSE i \in Unresolved(df) : Cardinality({j \in Unresolved(df) : j <= i}) = k

\* C28: the faults offered for repair guidance are the first 10 unresolved
\* rows of the loaded frame, in load order; a selection is a snapshot of an
\* offered fault; once there is one it is never cleared and changes only to
\* a fault picked from the offered ones; Mark Complete, Need Help, View Full
\* SOP and Ask leave it as it is; the panel of every later page is the panel
\* of the stored snapshot.
C28_SelectionPersists ==
    [][/\ view'.kind = "field" =>
            LET df == cache'[1].df
                shown == IF Cardinality(Unresolved(df)) < 10
                         THEN Cardinality(Unresolved(df)) ELSE 10
            IN  /\ Len(view'.offered) = shown
                /\ \A k \in 1 .. shown :
                    /\ view'.offered[k] = df[KthUnresolved(df, k)]
                    /\ ~view'.offered[k].is_resolved
                /\ (view'.panel # <<>>) <=> (selected_fault' # NULL)
                /\ selected_fault' # NULL =>
                    view'.panel[1] = display_repair_procedure(selected_fault'[1],
                                        cache'[1].sop_docs, view'.feedback)
       /\ selected_fault # NULL => selected_fault' # NULL
       /\ selected_fault' # selected_fault =>
            \E k \in DOMAIN view.offered : selected_fault' = <<view.offered[k]>>
       /\ (\/ MarkComplete \/ NeedHelp \/ ViewFullSOP
           \/ \E q \in Questions : display_ai_chat_interface(q)
           \/ \E i \in 1 .. MaxDocs : ViewProcedure(i))
            => selected_fault' = selected_fault]_vars

\* eleven faults are unresolved, the tenth offered one is selected, and the
\* page after Mark Complete and a question still shows its panel
C28_Witness ==
    /\ view.kind = "field"
    /\ Cardinality(Unresolved(cache[1].df)) = 11
    /\ Len(view.offered) = 10
    /\ selected_fault = <<view.offered[10]>>
    /\ selected_fault[1].fault_id = "F12"
    /\ view.feedback = "complete"
    /\ Len(chat_history) = 2

\* what the triage view supplies in `column` for a fault id: nothing when the
\* view is unavailable, has no row for the id or has a missing value there
Supplied(id, column) ==
    LET rows == {i \in DOMAIN triage.rows : triage.rows[i].FAULT_ID = id}
    IN  IF ~triage.up \/ rows = {} THEN NULL
        ELSE triage.rows[CHOOSE i \in rows : TRUE][column]

\* C29: a load that does not end in the except branch (its frame has other
\* columns than the empty frame) keeps every fault record; a record's calculated
\* priority score is the score the triage view supplies for its fault id,
\* and its original priority_score when the view supplies none or is
\* unavailable; likewise its predicted category and fault_category; its risk
\* level follows from the calculated score.
C29_TriageOrOriginal ==
    (app = "manager" /\ cache # <<>> /\ cache[2] # EmptyFrameColumns) =>
        /\ Len(cache[1]) = Len(store)
        /\ \A i \in DOMAIN cache[1] :
            LET r == cache[1][i]
                supplied_score == Supplied(store[i].fault_id, "CALCULATED_PRIORITY_SCORE")
                supplied_category == Supplied(store[i].fault_id, "PREDICTED_CATEGORY")
            IN  /\ r.fault_id = store[i].fault_id
                /\ r.priority_score = store[i].priority_score
                /\ r.calculated_priority_score =
                        (IF supplied_score # NULL THEN supplied_score[1] ELSE store[i].priority_score)
                /\ r.predicted_category =
                        (IF supplied_category # NULL THEN supplied_category[1] ELSE store[i].fault_category)
                /\ r.risk_level =
                        (IF r.calculated_priority_score > 80 THEN "CRITICAL"
                         ELSE IF r.calculated_priority_score > 60 THEN "HIGH"
                         ELSE IF r.calculated_priority_score > 40 THEN "MEDIUM"
                         ELSE "LOW")

\* the view supplies a score but no category for the fault: the record is
\* CRITICAL by the supplied score and keeps its own category
C29_Witness ==
    /\ cache # <<>> /\ Len(cache[1]) = 1
    /\ triage.up
    /\ Supplied("F1", "CALCULATED_PRIORITY_SCORE") = <<81>>
    /\ Supplied("F1", "PREDICTED_CATEGORY") = NULL
    /\ store[1].priority_score = 40 /\ store[1].fault_category = "Minor"
    /\ cache[1][1].calculated_priority_score = 81
    /\ cache[1][1].predicted_category = "Minor"
    /\ cache[1][1].risk_level = "CRITICAL"

====
